---- MODULE Spec2Model ----
(***************************************************************************)
(* Model of the attachment node of the virtual filesystem                  *)
(* (src/src/filesystem/file/attachment.rs) as a state machine: the five    *)
(* queues of an Attachment, the operations of its FileOps implementation   *)
(* and the part of VirtualFS that routes a read to a destroyed node        *)
(* (specification Spec); and of VirtualFS itself                           *)
(* (src/src/filesystem/mod.rs): its node table, the descriptor tables of   *)
(* the processes and the system calls on them (specification VfsSpec,     *)
(* and IdSpec where the kernel's descriptor counter is followed).          *)
(* LiveSpec is the attachment with a manager that keeps reading, ClockSpec *)
(* the system clock (src/src/time/mod.rs) with tick and now interleaved    *)
(* access by access, SmpSpec the start of the application processors       *)
(* (src/src/smp/mod.rs). TreeSpec is VirtualFS with a directory among the  *)
(* paths that are opened, PicSpec the handlers of IRQ 7 and IRQ 15         *)
(* (src/src/interrupt/mod.rs) on the lock of the interrupt controllers.    *)
(***************************************************************************)
EXTENDS Integers, Sequences, FiniteSets, TLC

(***************************************************************************)
(* Bounds of the model                                                     *)
(***************************************************************************)
\* Number of wakeup events WaitFor::new_event_id may mint in one behaviour.
MaxEvents == 2
\* Longest closed_pending queue explored.
MaxClosed == 2

(***************************************************************************)
(* Program constants                                                       *)
(***************************************************************************)
\* Width in bytes of Sender.pid, Sender.f and the operand of Read (u64).
U64Len == 8
\* ProcessId::first()
FirstPid == 1
\* First file descriptor of a process (FileDescriptor::from_u64(0)).
FirstFd == 0

(***************************************************************************)
(* Identities                                                              *)
(***************************************************************************)
\* FileClientId::process(pid, fd)
FileClientId(pid, fd) == [process |-> pid, fd |-> fd]

\* The attachment's manager: the first process, through its first descriptor.
Manager == FileClientId(FirstPid, FirstFd)

\* The client processes and the descriptors through which they opened the node.
ClientPids == {FirstPid + 1, FirstPid + 2}
Clients == {FileClientId(p, FirstFd) : p \in ClientPids}

Events == 1..MaxEvents
\* Buffer lengths a client read is issued with.
ClientBufLens == {1, 16}
\* Buffer lengths a manager read is issued with: room for a Close request
\* only, and room for every request.
ManagerBufLens == {17, 64}

\* Payloads the manager answers with: nothing, and a prefix of "hello".
Payloads == {<<>>, <<104, 101, 108>>}

Min(a, b) == IF a <= b THEN a ELSE b

(***************************************************************************)
(* Wire format (pinecone): fixed-width little-endian integers, one byte    *)
(* for an enum tag and for the length of a short byte string.              *)
(***************************************************************************)
RECURSIVE EncodeLE(_, _)
EncodeLE(v, n) == IF n = 0 THEN <<>> ELSE <<v % 256>> \o EncodeLE(v \div 256, n - 1)

\* u64 -> U64Len bytes, least significant first
EncodeU64(v) == EncodeLE(v, U64Len)

RECURSIVE DecodeLE(_)
DecodeLE(bytes) ==
    IF bytes = <<>> THEN 0 ELSE Head(bytes) + 256 * DecodeLE(Tail(bytes))

\* Sender { pid, f } of a client
Sender(fc) == [pid |-> fc.process, f |-> fc.fd]

EncodeSender(s) == EncodeU64(s.pid) \o EncodeU64(s.f)

\* FileOperation tags
TagRead == 0
TagClose == 1

\* pinecone::to_vec(&Request { sender, data: FileOperation::Close })
EncodeRequestClose(fc) == EncodeSender(Sender(fc)) \o <<TagClose>>

\* pinecone::to_vec(&Request { sender, data: FileOperation::Read(n) })
EncodeRequestRead(fc, n) == EncodeSender(Sender(fc)) \o <<TagRead>> \o EncodeU64(n)

\* pinecone::to_vec(&Response { sender, data })
EncodeResponse(sender, data) == EncodeSender(sender) \o <<Len(data)>> \o data

\* A Request as the manager decodes it from the bytes it was handed.
DecodeRequest(bytes) ==
    [sender |-> [pid |-> DecodeLE(SubSeq(bytes, 1, U64Len)),
                 f   |-> DecodeLE(SubSeq(bytes, U64Len + 1, 2 * U64Len))],
     tag    |-> bytes[2 * U64Len + 1],
     n      |-> IF bytes[2 * U64Len + 1] = TagRead
                THEN DecodeLE(SubSeq(bytes, 2 * U64Len + 2, 3 * U64Len + 1))
                ELSE 0]

\* pinecone::take_from_bytes::<Response>(buf): the bytes hold a whole Response
ResponseComplete(buf) ==
    /\ Len(buf) >= 2 * U64Len + 1
    /\ Len(buf) >= 2 * U64Len + 1 + buf[2 * U64Len + 1]

\* pinecone::take_from_bytes::<Response>(buf) = (request, rest)
TakeResponse(buf) ==
    LET n == buf[2 * U64Len + 1]
    IN  [sender |-> [pid |-> DecodeLE(SubSeq(buf, 1, U64Len)),
                     f   |-> DecodeLE(SubSeq(buf, U64Len + 1, 2 * U64Len))],
         data   |-> SubSeq(buf, 2 * U64Len + 2, 2 * U64Len + 1 + n),
         rest   |-> SubSeq(buf, 2 * U64Len + 2 + n, Len(buf))]

(***************************************************************************)
(* State                                                                   *)
(***************************************************************************)
VARIABLES
    manager_pending_data,   \* FdWaitFlag: TRUE when available
    reads_pending,          \* VecDeque<(FileClientId, ExplicitEventId)>
    reads_in_progress,      \* HashMap<FileClientId, ExplicitEventId>
    reads_completed,        \* HashMap<FileClientId, VecDeque<u8>>
    closed_pending,         \* VecDeque<FileClientId>
    next_event_id,          \* counter behind WaitFor::new_event_id()
    destroyed,              \* the node was removed and destroy() has run
    panicked,               \* the kernel panicked
    minted,                 \* history: the client whose read minted each event, in order
    asked,                  \* history: buffer length of the read behind each pending event
    fired,                  \* history: how often each event was handed to the scheduler
    last_delivered,         \* history: event of the last Read request handed to the manager
    dropped,                \* history: events whose queue entry a client close removed
    waiting,                \* history: the event each client was last told to wait on
    ret,                    \* the last call and what it returned
    nodes,                  \* VirtualFS.nodes: HashMap<NodeId, Node>
    descriptors,            \* VirtualFS.descriptors: HashMap<ProcessId, ProcessDescriptors>
    next_node_id,           \* VirtualFS.next_node_id
    next_kernel_fd,         \* VirtualFS.next_kernel_fd
    next_pid,               \* the process id the scheduler hands out next
    holders,                \* history: (fc, node) pairs opened and not yet closed
    parked,                 \* history: (fc, node) pairs of clients told to wait and not woken
    vret,                   \* the last VirtualFS call and what it returned
    SYSCLOCK,               \* static SYSCLOCK: SystemClock {lock, sec, nsec}
    SCHEDULER,              \* static SCHEDULER: its lock and the time of its last tick
    tick_frame,             \* the core in SystemClock::tick: position, locals, ticks done
    now_frame,              \* a core in SystemClock::now: position and locals
    now_hist,               \* history: pairs the clock held during the call, values returned
    AP_FREE_STACK,          \* static AP_FREE_STACK: AtomicU64, 0 when no stack is offered
    AP_READY_COUNT,         \* static AP_READY_COUNT: AtomicU64
    bsp,                    \* the boot processor in start_all and start_one
    aps,                    \* the application processors: what each has done so far
    PICS,                   \* static PICS: the holder of its lock, the in-service lines
    irq_frame               \* the core in exception_irq7 or exception_irq15

\* The variables of the attachment and those of VirtualFS; panicked is the
\* kernel's and belongs to both.
att_vars == <<manager_pending_data, reads_pending, reads_in_progress, reads_completed,
              closed_pending, next_event_id, destroyed,
              minted, asked, fired, last_delivered, dropped, waiting, ret>>
vfs_vars == <<nodes, descriptors, next_node_id, next_kernel_fd, next_pid, holders, parked,
              vret>>
\* The variables of the system clock and those of the processor start-up
clock_vars == <<SYSCLOCK, SCHEDULER, tick_frame, now_frame, now_hist>>
smp_vars == <<AP_FREE_STACK, AP_READY_COUNT, bsp, aps>>
\* The variables of the interrupt controllers
pic_vars == <<PICS, irq_frame>>

vars == <<manager_pending_data, reads_pending, reads_in_progress, reads_completed,
          closed_pending, next_event_id, destroyed, panicked,
          minted, asked, fired, last_delivered, dropped, waiting, ret,
          nodes, descriptors, next_node_id, next_kernel_fd, next_pid, holders, parked,
          vret, SYSCLOCK, SCHEDULER, tick_frame, now_frame, now_hist,
          AP_FREE_STACK, AP_READY_COUNT, bsp, aps, PICS, irq_frame>>

queues == <<reads_pending, reads_in_progress, reads_completed, closed_pending>>
history == <<minted, asked, fired, last_delivered, dropped, waiting>>

\* HashMap::new, insert and remove
EmptyMap == [k \in {} |-> 0]
MapInsert(m, k, v) == [x \in (DOMAIN m) \cup {k} |-> IF x = k THEN v ELSE m[x]]
MapRemove(m, k) == [x \in (DOMAIN m) \ {k} |-> m[x]]
MapValues(m) == {m[k] : k \in DOMAIN m}

\* FdWaitFlag: new_unavailable, set_available, set_unavailable, and the
\* condition under which expect_wait has nothing to wait for
NewUnavailable == FALSE
SetAvailable == TRUE
SetUnavailable == FALSE
ExpectWaitFails(flag) == flag

\* WaitFor::new_event_id(): the next value of a monotonic counter
NewEventId == next_event_id

\* What a call returned: the IoResult (kind, val, ev), the bytes put into the
\* caller's buffer, and whether the manager's wait flag was triggered.
Ret(op, fc, len, kind, val, ev, buf, wake) ==
    [op |-> op, fc |-> fc, len |-> len, kind |-> kind, val |-> val, ev |-> ev,
     buf |-> buf, wake |-> wake]

PendingFcs == {reads_pending[i].fc : i \in DOMAIN reads_pending}
PendingEvents == [i \in DOMAIN reads_pending |-> reads_pending[i].ev]

(***************************************************************************)
(* VirtualFS: nodes, descriptor tables and path resolution                 *)
(***************************************************************************)
\* Bound of the VirtualFS model: descriptors the live processes may hold in
\* their tables, all together.
MaxFds == 2
\* Kernel descriptors that take_kernel_fc hands out after boot, where
\* next_kernel_fd is followed.
MaxKernelFds == 24

\* const ROOT_ID: NodeId = NodeId::first()
ROOT_ID == 1
\* Option::None as the parent of a node
NoNode == 0
\* FileClientId::kernel: process None
KernelPid == 0
\* A descriptor handed out by take_kernel_fc; each is used by one kernel open.
KernelFc == FileClientId(KernelPid, FirstFd)

Front(path) == SubSeq(path, 1, Len(path) - 1)
Last(path) == path[Len(path)]

\* Node::new(parent, data): no reference yet
NewNode(parent, data, leafness, manager) ==
    [parent |-> parent, refcount |-> 0, data |-> data, leafness |-> leafness,
     listing |-> <<>>, manager |-> manager, waiters |-> {},
     pending_data |-> FALSE, result |-> "none"]

\* Node::inc_ref
IncRef(node) == [node EXCEPT !.refcount = @ + 1]

\* Node::open: one more reference; the FileOps of the kinds modelled accept
NodeOpen(node, fc) == IncRef(node)

\* an attachment whose manager's close is handled like a client's
AttachmentCloseNormal(node, fc) ==
    [node |-> [node EXCEPT !.waiters = @ \ {fc}], action |-> "Normal", events |-> 0]

\* an attachment that asks to be destroyed at every close
AttachmentCloseDestroys(node, fc) == [node |-> node, action |-> "Destroy", events |-> 0]

\* FdWaitFlag::set_available on manager_pending_data of an attachment node:
\* the flag's event is triggered when the flag was not available
FlagSetAvailable(node) ==
    [node |-> [node EXCEPT !.pending_data = TRUE],
     events |-> IF node.pending_data THEN 0 ELSE 1]

\* Attachment::close: Destroy for the manager; a client leaves the queues,
\* its close is put up for the manager and the attachment stays. events
\* counts the events that the IoResult carries.
AttachmentClose(node, fc) ==
    IF fc = node.manager
    THEN [node |-> node, action |-> "Destroy", events |-> 0]
    ELSE LET Told(f) == [node |-> f.node, action |-> "Normal", events |-> f.events]
         IN  Told(FlagSetAvailable([node EXCEPT !.waiters = @ \ {fc}]))

\* Attachment::read of a client that has no completed read: a new pending
\* read, the manager's flag set available, RepeatAfter
AttachmentReadNew(node, fc) ==
    FlagSetAvailable([node EXCEPT !.waiters = @ \cup {fc}])

\* FileOps::close of the node's data
DataClose(node, fc) ==
    IF node.data = "Attachment"
    THEN AttachmentClose(node, fc)
    ELSE [node |-> node, action |-> "Normal", events |-> 0]

\* Node::close: one reference less; the node is to be destroyed when its data
\* asks for it or when no reference is left
NodeClose(node, fc) ==
    LET rc == node.refcount - 1
        Closed(d) ==
            [node   |-> [d.node EXCEPT !.refcount = rc],
             action |-> IF d.action = "Destroy" \/ rc = 0 THEN "Destroy" ELSE "Normal",
             events |-> d.events]
    IN  Closed(DataClose(node, fc))

\* Attachment::destroy: the clients whose events the trigger holds
Destroy(node) == IF node.data = "Attachment" THEN node.waiters ELSE {}

\* a temporary open that forgets to close
TempOpenNoClose(ns, node_id) ==
    IF node_id \notin DOMAIN ns
    THEN [kind |-> "Panic", nodes |-> ns, taken |-> 1, events |-> 0]
    ELSE [kind |-> "Success",
          nodes |-> [ns EXCEPT ![node_id] = NodeOpen(ns[node_id], KernelFc)], taken |-> 1,
          events |-> 0]

\* VirtualFS::temp_open around a body that leaves the node table alone: take
\* a kernel descriptor, open with it, close, and the close must answer Normal.
\* taken counts the kernel descriptors a call has taken, events the events
\* in the IoContext of the result.
TempOpen(ns, node_id) ==
    IF node_id \notin DOMAIN ns
    THEN [kind |-> "Panic", nodes |-> ns, taken |-> 1, events |-> 0]
    ELSE LET Closed(keep) ==
                 IF keep.action /= "Normal"
                 THEN [kind |-> "Panic", nodes |-> ns, taken |-> 1, events |-> 0]
                 ELSE [kind |-> "Success", nodes |-> [ns EXCEPT ![node_id] = keep.node],
                       taken |-> 1, events |-> keep.events]
         IN  Closed(NodeClose(NodeOpen(ns[node_id], KernelFc), KernelFc))

\* an on_process_over that leaves the status out
WriteStatusSkipped(ns, node_id) ==
    [kind |-> "Success", nodes |-> ns, taken |-> 0, events |-> 0]

\* on_process_over, the status: temp_open around write_all_ser, which puts
\* the serialized ProcessResult into the process file
WriteStatus(ns, node_id) ==
    IF node_id \notin DOMAIN ns THEN TempOpen(ns, node_id)
    ELSE TempOpen([ns EXCEPT ![node_id].result = "written"], node_id)

\* VirtualFS::read_file once the path is resolved: temp_open around
\* read_to_end. The read of an image held by the filesystem succeeds; the
\* read of an attachment is the read of a client, which answers RepeatAfter,
\* and the events of the read and of the close come back with the result.
ReadFile(ns, node_id) ==
    IF node_id \notin DOMAIN ns
    THEN [kind |-> "Panic", nodes |-> ns, taken |-> 1, events |-> 0]
    ELSE IF ns[node_id].data /= "Attachment" THEN TempOpen(ns, node_id)
    ELSE LET Closed(read, keep) ==
                 IF keep.action /= "Normal"
                 THEN [kind |-> "Panic", nodes |-> ns, taken |-> 1, events |-> 0]
                 ELSE [kind |-> "RepeatAfter",
                       nodes |-> [ns EXCEPT ![node_id] = keep.node],
                       taken |-> 1, events |-> read.events + keep.events]
             Read(read) == Closed(read, NodeClose(read.node, KernelFc))
         IN  Read(AttachmentReadNew(NodeOpen(ns[node_id], KernelFc), KernelFc))

\* a get_children that reads the listing of a leaf like that of a branch
GetChildrenOfLeaf(ns, node_id) ==
    IF node_id \notin DOMAIN ns
    THEN [kind |-> "fs_file_destroyed", val |-> <<>>, nodes |-> ns, taken |-> 0,
          events |-> 0]
    ELSE LET Listed(t) ==
                 [kind |-> t.kind,
                  val |-> IF t.kind = "Success" THEN ns[node_id].listing ELSE <<>>,
                  nodes |-> t.nodes, taken |-> t.taken, events |-> t.events]
         IN  Listed(TempOpen(ns, node_id))

\* VirtualFS::get_children, for Leaf and InternalBranch nodes
GetChildren(ns, node_id) ==
    IF node_id \notin DOMAIN ns
    THEN [kind |-> "fs_file_destroyed", val |-> <<>>, nodes |-> ns, taken |-> 0,
          events |-> 0]
    ELSE IF ns[node_id].leafness = "Leaf"
    THEN [kind |-> "fs_node_is_leaf", val |-> <<>>, nodes |-> ns, taken |-> 0,
          events |-> 0]
    ELSE LET Listed(t) ==
                 [kind |-> t.kind,
                  val |-> IF t.kind = "Success" THEN ns[node_id].listing ELSE <<>>,
                  nodes |-> t.nodes, taken |-> t.taken, events |-> t.events]
         IN  Listed(TempOpen(ns, node_id))

\* VirtualFS::get_child: the IoContext that get_children hands back is bound
\* and not passed on with the result
GetChild(ns, node_id, name) ==
    LET Find(c) ==
            LET found == {i \in DOMAIN c.val : c.val[i].name = name}
            IN  IF c.kind /= "Success"
                THEN [kind |-> c.kind, val |-> NoNode, nodes |-> c.nodes, taken |-> c.taken]
                ELSE IF found = {}
                THEN [kind |-> "fs_node_not_found", val |-> NoNode, nodes |-> c.nodes,
                      taken |-> c.taken]
                ELSE [kind |-> "Success",
                      val |-> c.val[CHOOSE i \in found : \A j \in found : i <= j].id,
                      nodes |-> c.nodes, taken |-> c.taken]
    IN  Find(GetChildren(ns, node_id))

\* The loop of VirtualFS::resolve from a cursor
RECURSIVE ResolveFrom(_, _, _)
ResolveFrom(ns, cursor, path) ==
    IF path = <<>>
    THEN [kind |-> "Success", val |-> cursor, nodes |-> ns, taken |-> 0]
    ELSE LET After(n, rest) == [rest EXCEPT !.taken = @ + n]
             Step(r) ==
                 IF r.kind /= "Success" THEN r
                 ELSE After(r.taken, ResolveFrom(r.nodes, r.val, Tail(path)))
         IN  CHOOSE found \in {Step(r) : r \in {GetChild(ns, cursor, Head(path))}} : TRUE

\* VirtualFS::resolve
Resolve(ns, path) == ResolveFrom(ns, ROOT_ID, path)

\* a has_child that never finds the child
HasChildBlind(ns, node_id, name) ==
    LET Has(child) ==
            [kind |-> IF child.kind \in {"Success", "fs_node_not_found"}
                      THEN "Success" ELSE "Panic",
             val |-> FALSE,
             nodes |-> child.nodes, taken |-> child.taken]
    IN  Has(GetChild(ns, node_id, name))

\* VirtualFS::has_child: any error but fs_node_not_found is a todo!
HasChild(ns, node_id, name) ==
    LET Has(child) ==
            [kind |-> IF child.kind \in {"Success", "fs_node_not_found"}
                      THEN "Success" ELSE "Panic",
             val |-> child.kind = "Success",
             nodes |-> child.nodes, taken |-> child.taken]
    IN  Has(GetChild(ns, node_id, name))

\* VirtualFS::add_child: InternalModification::Add written to the parent
AddChild(ns, parent_id, child_name, child_id) ==
    IF parent_id \notin DOMAIN ns
    THEN [kind |-> "fs_file_destroyed", nodes |-> ns, taken |-> 0]
    ELSE IF ns[parent_id].leafness = "Leaf"
    THEN [kind |-> "fs_node_is_leaf", nodes |-> ns, taken |-> 0]
    ELSE LET Add(t) ==
                 IF t.kind /= "Success" THEN t
                 ELSE [kind |-> "Success",
                       nodes |-> [t.nodes EXCEPT ![parent_id].listing =
                                      Append(@, [id |-> child_id, name |-> child_name])],
                       taken |-> t.taken]
         IN  Add(TempOpen(ns, parent_id))

\* a remove_child that leaves the listing of the parent as it is
RemoveChildKeeps(ns, parent_id, child_id) ==
    [kind |-> "Success", nodes |-> ns, taken |-> 0]

\* VirtualFS::remove_child: InternalModification::Remove written to the parent
RemoveChild(ns, parent_id, child_id) ==
    IF parent_id \notin DOMAIN ns
    THEN [kind |-> "fs_file_destroyed", nodes |-> ns, taken |-> 0]
    ELSE IF ns[parent_id].leafness = "Leaf"
    THEN [kind |-> "fs_node_is_leaf", nodes |-> ns, taken |-> 0]
    ELSE LET IsOther(e) == e.id /= child_id
             Remove(t) ==
                 IF t.kind /= "Success" THEN t
                 ELSE [kind |-> "Success",
                       nodes |-> [t.nodes EXCEPT ![parent_id].listing = SelectSeq(@, IsOther)],
                       taken |-> t.taken]
         IN  Remove(TempOpen(ns, parent_id))

\* self.next_node_id = new_node_id.next()
AdvanceNodeId(id) == id + 1

\* a take_kernel_fc that hands out the same descriptor again
TakeKernelFcsSame(s, n) == s

\* VirtualFS::take_kernel_fc, n times over: the descriptors handed out are
\* next_kernel_fd, ..., next_kernel_fd + n - 1
TakeKernelFcs(s, n) == [s EXCEPT !.next_kernel_fd = @ + n]

\* VirtualFS::create_node_with, up to the call of the closure: s is the
\* filesystem, the result carries the filesystem with the new node linked
\* and inserted.
CreateNodeWith(s, parent, name, new_node) ==
    LET new_node_id == s.next_node_id
        Insert(a, n) ==
            IF a.kind /= "Success"
            THEN [kind |-> a.kind, val |-> NoNode, s |-> TakeKernelFcs(s, n + a.taken)]
            ELSE [kind |-> "Success", val |-> new_node_id,
                  s |-> [TakeKernelFcs(s, n + a.taken) EXCEPT
                             !.nodes = MapInsert(a.nodes, new_node_id, new_node),
                             !.next_node_id = AdvanceNodeId(new_node_id)]]
        Create(exists) ==
            IF exists.kind = "Panic"
            THEN [kind |-> "Panic", val |-> NoNode, s |-> s]
            ELSE IF exists.val
            THEN [kind |-> "fs_node_exists", val |-> NoNode,
                  s |-> TakeKernelFcs(s, exists.taken)]
            ELSE IF exists.nodes[parent].leafness = "Leaf"
            THEN [kind |-> "fs_node_is_leaf", val |-> NoNode,
                  s |-> TakeKernelFcs(s, exists.taken)]
            ELSE Insert(AddChild(exists.nodes, parent, name, new_node_id), exists.taken)
    IN  Create(HasChild(s.nodes, parent, name))

\* VirtualFS::create_static: create the node and give it one initial reference
CreateStatic(s, path, data, leafness) ==
    LET Created(c) ==
            IF c.kind /= "Success" THEN c
            ELSE [c EXCEPT !.s.nodes[c.val] = IncRef(@)]
        Under(parent) ==
            IF parent.kind /= "Success"
            THEN [kind |-> parent.kind, val |-> NoNode, s |-> TakeKernelFcs(s, parent.taken)]
            ELSE Created(CreateNodeWith(TakeKernelFcs(s, parent.taken), parent.val,
                                        Last(path),
                                        NewNode(parent.val, data, leafness, KernelFc)))
    IN  Under(Resolve(s.nodes, Front(path)))

\* VirtualFS::new: the root refers to itself
VirtualFSNew ==
    [nodes |-> (ROOT_ID :> IncRef(NewNode(NoNode, "InternalBranch", "InternalBranch",
                                          KernelFc))),
     descriptors |-> EmptyMap,
     next_node_id |-> ROOT_ID + 1,
     next_kernel_fd |-> FirstFd,
     holders |-> {},
     parked |-> {},
     panic |-> FALSE]

\* The nodes of create_fs, in its order
FsEntries ==
    << [path |-> <<"bin">>, data |-> "InternalBranch", leafness |-> "InternalBranch"],
       [path |-> <<"cfg">>, data |-> "InternalBranch", leafness |-> "InternalBranch"],
       [path |-> <<"dev">>, data |-> "InternalBranch", leafness |-> "InternalBranch"],
       [path |-> <<"mnt">>, data |-> "InternalBranch", leafness |-> "InternalBranch"],
       [path |-> <<"prc">>, data |-> "InternalBranch", leafness |-> "InternalBranch"],
       [path |-> <<"srv">>, data |-> "InternalBranch", leafness |-> "InternalBranch"],
       [path |-> <<"dev", "null">>, data |-> "Device", leafness |-> "Leaf"],
       [path |-> <<"dev", "zero">>, data |-> "Device", leafness |-> "Leaf"],
       [path |-> <<"dev", "test">>, data |-> "Device", leafness |-> "Leaf"],
       [path |-> <<"dev", "console">>, data |-> "Device", leafness |-> "Leaf"],
       [path |-> <<"dev", "nic">>, data |-> "Device", leafness |-> "Leaf"],
       [path |-> <<"dev", "nic_mac">>, data |-> "Device", leafness |-> "Leaf"] >>

\* The program image the first process is started from
StaticFiles ==
    << [path |-> <<"bin", "x">>, data |-> "File", leafness |-> "Leaf"] >>

\* The create_static calls of create_fs, one after the other; the filesystem
\* that one call leaves is a value before the next call takes it.
RECURSIVE CreateAll(_, _)
CreateAll(s, entries) ==
    IF entries = <<>> THEN s
    ELSE LET Entry(e) == {CreateStatic(s, e.path, e.data, e.leafness).s}
         IN  CHOOSE all \in {CreateAll(made, Tail(entries)) : made \in Entry(Head(entries))} :
                 TRUE

\* create_fs on a new VirtualFS, then the static files
Boot == CreateAll(CreateAll(VirtualFSNew, FsEntries), StaticFiles)

\* The root and the nodes created as permanent
StaticNodes == DOMAIN Boot.nodes

\* ProcessDescriptors::new
ProcessDescriptorsNew(node_id) ==
    [node_id |-> node_id, descriptors |-> EmptyMap, next_fd |-> FirstFd]

\* a descriptor table that hands out the same descriptor again
CreateIdNoNext(pd, node_id) ==
    [pd EXCEPT !.descriptors = MapInsert(@, pd.next_fd, node_id)]

\* ProcessDescriptors::create_id
CreateId(pd, node_id) ==
    [pd EXCEPT !.descriptors = MapInsert(@, pd.next_fd, node_id),
               !.next_fd = @ + 1]

\* acpi_data.cpus without the first: the application processors
NumAps == 3

\* Attachment::new and, for VirtualFS, the state after boot; the clock at
\* zero; the boot processor about to call start_all
Init ==
    /\ manager_pending_data = NewUnavailable
    /\ reads_pending = <<>>
    /\ reads_in_progress = EmptyMap
    /\ reads_completed = EmptyMap
    /\ closed_pending = <<>>
    /\ next_event_id = 1
    /\ destroyed = FALSE
    /\ panicked = FALSE
    /\ minted = <<>>
    /\ asked = [e \in Events |-> 0]
    /\ fired = [e \in Events |-> 0]
    /\ last_delivered = 0
    /\ dropped = {}
    /\ waiting = [fc \in Clients |-> 0]
    /\ ret = Ret("new", Manager, 0, "None", 0, 0, <<>>, FALSE)
    /\ nodes = Boot.nodes
    /\ descriptors = Boot.descriptors
    /\ next_node_id = Boot.next_node_id
    /\ next_kernel_fd = Boot.next_kernel_fd
    /\ next_pid = FirstPid
    /\ holders = {}
    /\ parked = {}
    /\ vret = [op |-> "boot", path |-> <<>>, kind |-> "Success", val |-> 0, taken |-> 0,
             consumed |-> 0, lost |-> 0]
    /\ SYSCLOCK = [lock |-> FALSE, sec |-> 0, nsec |-> 0]
    /\ SCHEDULER = [locked |-> FALSE, ticks |-> 0, now |-> <<0, 0>>]
    /\ tick_frame = [pc |-> "idle", sec |-> 0, nsec |-> 0, ticks |-> 0]
    /\ now_frame = [pc |-> "idle", prev_sec |-> 0, prev_nsec |-> 0, sec |-> 0]
    /\ now_hist = [held |-> {}, returned |-> <<>>]
    /\ AP_FREE_STACK = 0
    /\ AP_READY_COUNT = 0
    /\ bsp = [pc |-> "start_all", cpu |-> 1, polls |-> 0, count |-> 0]
    /\ aps = [cpu \in 1..NumAps |-> [state |-> "off", stack |-> 0]]
    /\ PICS = [holder |-> "none", isr |-> {}]
    /\ irq_frame = [pc |-> "idle", irq |-> 0, is_real |-> FALSE, spins |-> 0, handled |-> 0]

\* panic!, expect and unimplemented!: the kernel stops
Panic(op) ==
    /\ panicked' = TRUE
    /\ ret' = Ret(op, Manager, 0, "Panic", 0, 0, <<>>, FALSE)

(***************************************************************************)
(* Client read                                                             *)
(***************************************************************************)
\* a drain that ignores the length of the caller's buffer
DrainCountAll(data, len) == Len(data)

\* The loop of Attachment::read that moves bytes from the completed queue
\* into buf: the number of bytes moved.
DrainCount(data, len) == Min(len, Len(data))

\* a request pushed to the front of the queue
PushPendingFront(q, fc, event_id) == <<[fc |-> fc, ev |-> event_id]>> \o q

\* reads_pending.push_back((fc, event_id))
PushPending(q, fc, event_id) == Append(q, [fc |-> fc, ev |-> event_id])

\* Attachment::read for fc /= manager
ClientRead(fc, len) ==
    /\ ~destroyed /\ ~panicked
    /\ IF fc \in DOMAIN reads_completed
       THEN LET data == reads_completed[fc]
                i    == DrainCount(data, len)
            IN  /\ reads_completed' =
                       MapInsert(MapRemove(reads_completed, fc), fc,
                                 SubSeq(data, i + 1, Len(data)))
                /\ ret' = Ret("read", fc, len, "Success", i, 0, SubSeq(data, 1, i), FALSE)
                /\ UNCHANGED <<manager_pending_data, reads_pending, reads_in_progress,
                               closed_pending, next_event_id, minted, asked, waiting>>
       ELSE /\ next_event_id <= MaxEvents
            /\ LET event_id == NewEventId
               IN  /\ next_event_id' = next_event_id + 1
                   /\ reads_pending' = PushPending(reads_pending, fc, event_id)
                   /\ minted' = Append(minted, fc)
                   /\ asked' = [asked EXCEPT ![event_id] = len]
                   /\ waiting' = [waiting EXCEPT ![fc] = event_id]
                   /\ manager_pending_data' = SetAvailable
                   /\ ret' = Ret("read", fc, len, "RepeatAfter", 0, event_id, <<>>,
                                 ~manager_pending_data)
            /\ UNCHANGED <<reads_in_progress, reads_completed, closed_pending>>
    /\ UNCHANGED <<destroyed, panicked, fired, last_delivered, dropped>>
    /\ UNCHANGED <<vfs_vars, clock_vars, smp_vars, pic_vars>>

(***************************************************************************)
(* Manager read                                                            *)
(***************************************************************************)
\* has_pending_input that forgets the closes waiting for the manager
HasPendingInputReadsOnly(pending, closed) == pending /= <<>>

\* Attachment::has_pending_input
HasPendingInput(pending, closed) == ~(pending = <<>> /\ closed = <<>>)

\* a manager read that serves closes only
ManagerReadChoiceClosesOnly ==
    IF closed_pending /= <<>> THEN "close" ELSE "none"

\* a manager read that serves reads before closes
ManagerReadChoiceReadsFirst ==
    IF reads_pending /= <<>> THEN "pending"
    ELSE IF closed_pending /= <<>> THEN "close"
    ELSE "none"

\* manager_read_close(..).or_else(|| manager_read_pending(..)): which queue is served
ManagerReadChoice ==
    IF closed_pending /= <<>> THEN "close"
    ELSE IF reads_pending /= <<>> THEN "pending"
    ELSE "none"

\* The tail of Attachment::manager_read after a request was produced
ManagerReadComplete(pending, closed) ==
    manager_pending_data' =
        IF ~HasPendingInput(pending, closed) THEN SetUnavailable ELSE manager_pending_data

\* Attachment::manager_read_close
ManagerReadClose(len) ==
    LET closed_fc == Head(closed_pending)
        bytes     == EncodeRequestClose(closed_fc)
    IN  /\ closed_pending' = Tail(closed_pending)
        /\ UNCHANGED <<reads_pending, reads_in_progress, last_delivered, asked>>
        /\ IF Len(bytes) <= len
           THEN /\ ManagerReadComplete(reads_pending, Tail(closed_pending))
                /\ ret' = Ret("manager_read", Manager, len, "Success", Len(bytes), 0,
                              bytes, FALSE)
                /\ UNCHANGED panicked
           ELSE /\ Panic("manager_read")
                /\ UNCHANGED manager_pending_data

\* Attachment::manager_read_pending
ManagerReadPending(len) ==
    LET reader == Head(reads_pending)
        bytes  == EncodeRequestRead(reader.fc, len)
    IN  /\ reads_pending' = Tail(reads_pending)
        /\ UNCHANGED closed_pending
        /\ asked' = [asked EXCEPT ![reader.ev] = 0]
        /\ IF Len(bytes) <= len
           THEN /\ reads_in_progress' = MapInsert(reads_in_progress, reader.fc, reader.ev)
                /\ last_delivered' = reader.ev
                /\ ManagerReadComplete(Tail(reads_pending), closed_pending)
                /\ ret' = Ret("manager_read", Manager, len, "Success", Len(bytes), 0,
                              bytes, FALSE)
                /\ UNCHANGED panicked
           ELSE /\ Panic("manager_read")
                /\ UNCHANGED <<manager_pending_data, reads_in_progress, last_delivered>>

\* Attachment::manager_read
ManagerRead(len) ==
    /\ ~destroyed /\ ~panicked
    /\ CASE ManagerReadChoice = "close" -> ManagerReadClose(len)
         [] ManagerReadChoice = "pending" -> ManagerReadPending(len)
         [] OTHER ->
              \* manager_pending_data.expect_wait()
              /\ IF ExpectWaitFails(manager_pending_data)
                 THEN Panic("manager_read")
                 ELSE /\ ret' = Ret("manager_read", Manager, len, "RepeatAfter", 0, 0,
                                    <<>>, FALSE)
                      /\ UNCHANGED panicked
              /\ UNCHANGED <<manager_pending_data, reads_pending, reads_in_progress,
                             closed_pending, last_delivered, asked>>
    /\ UNCHANGED <<reads_completed, next_event_id, destroyed, minted, fired, dropped,
                   waiting>>
    /\ UNCHANGED <<vfs_vars, clock_vars, smp_vars, pic_vars>>

(***************************************************************************)
(* Writes                                                                  *)
(***************************************************************************)
\* A sender that names no client of the attachment.
Stranger == [pid |-> FirstPid + 3, f |-> FirstFd]

\* Buffers the manager writes: a whole Response, a Response followed by a
\* further byte, and a Response cut short.
ManagerWriteBufs ==
    LET whole == {EncodeResponse(s, d) :
                      s \in {Sender(c) : c \in Clients} \cup {Stranger}, d \in Payloads}
    IN  whole
        \cup {Append(b, 7) : b \in whole}
        \cup {SubSeq(b, 1, Len(b) - 1) : b \in whole}

\* the consumed count that forgets the bytes left over after the Response
BytesConsumedWholeBuf(buf, rest) == Len(buf)

\* buf.len() - rest.len()
BytesConsumed(buf, rest) == Len(buf) - Len(rest)

\* a write that wakes the client without storing its data
CompleteReadDropsData(completed, client_fc, data) == completed

\* self.reads_completed.insert(client_fc, request.data.into())
CompleteRead(completed, client_fc, data) == MapInsert(completed, client_fc, data)

\* Attachment::write for fc == manager
ManagerWrite(buf) ==
    /\ ~destroyed /\ ~panicked
    /\ IF ~ResponseComplete(buf)
       THEN \* expect("Partial write from manager")
            /\ Panic("write")
            /\ UNCHANGED <<reads_in_progress, reads_completed, fired>>
       ELSE LET request   == TakeResponse(buf)
                client_fc == FileClientId(request.sender.pid, request.sender.f)
            IN  IF client_fc \notin DOMAIN reads_in_progress
                THEN \* expect("Client does not exist")
                     /\ Panic("write")
                     /\ UNCHANGED <<reads_in_progress, reads_completed, fired>>
                ELSE LET client_wakeup_event == reads_in_progress[client_fc]
                     IN  /\ reads_in_progress' = MapRemove(reads_in_progress, client_fc)
                         /\ reads_completed' =
                                CompleteRead(reads_completed, client_fc, request.data)
                         /\ fired' = [fired EXCEPT ![client_wakeup_event] = @ + 1]
                         /\ ret' = Ret("write", client_fc, Len(buf), "TriggerEvent",
                                       BytesConsumed(buf, request.rest),
                                       client_wakeup_event, request.data, FALSE)
                         /\ UNCHANGED panicked
    /\ UNCHANGED <<manager_pending_data, reads_pending, closed_pending, next_event_id,
                   destroyed, minted, asked, last_delivered, dropped, waiting>>
    /\ UNCHANGED <<vfs_vars, clock_vars, smp_vars, pic_vars>>

\* Attachment::write for fc /= manager: unimplemented!()
ClientWrite(fc) ==
    /\ ~destroyed /\ ~panicked
    /\ Panic("write")
    /\ UNCHANGED <<manager_pending_data, reads_pending, reads_in_progress,
                   reads_completed, closed_pending, next_event_id, destroyed,
                   minted, asked, fired, last_delivered, dropped, waiting>>
    /\ UNCHANGED <<vfs_vars, clock_vars, smp_vars, pic_vars>>

(***************************************************************************)
(* Close and destroy                                                       *)
(***************************************************************************)
\* Index of the first reads_pending entry of fc, 0 when there is none
FirstPendingOf(fc) ==
    LET idx == {i \in DOMAIN reads_pending : reads_pending[i].fc = fc}
    IN  IF idx = {} THEN 0 ELSE CHOOSE i \in idx : \A j \in idx : i <= j

\* VecDeque::remove(i)
RemoveAt(q, i) == SubSeq(q, 1, i - 1) \o SubSeq(q, i + 1, Len(q))

\* Attachment::close for fc /= manager
ClientClose(fc) ==
    /\ ~destroyed /\ ~panicked
    /\ Len(closed_pending) < MaxClosed
    /\ LET i == FirstPendingOf(fc)
       IN  /\ reads_pending' = IF i = 0 THEN reads_pending ELSE RemoveAt(reads_pending, i)
           /\ asked' = IF i = 0 THEN asked ELSE [asked EXCEPT ![reads_pending[i].ev] = 0]
           /\ dropped' = dropped
                  \cup (IF i = 0 THEN {} ELSE {reads_pending[i].ev})
                  \cup (IF fc \in DOMAIN reads_in_progress
                        THEN {reads_in_progress[fc]} ELSE {})
    /\ IF fc \in DOMAIN reads_in_progress
       THEN /\ reads_in_progress' = MapRemove(reads_in_progress, fc)
            /\ UNCHANGED reads_completed
       ELSE /\ reads_completed' = MapRemove(reads_completed, fc)
            /\ UNCHANGED reads_in_progress
    /\ closed_pending' = Append(closed_pending, fc)
    /\ manager_pending_data' = SetAvailable
    /\ ret' = Ret("close", fc, 0, "Normal", 0, 0, <<>>, ~manager_pending_data)
    /\ waiting' = [waiting EXCEPT ![fc] = 0]
    /\ UNCHANGED <<next_event_id, destroyed, panicked, minted, fired, last_delivered>>
    /\ UNCHANGED <<vfs_vars, clock_vars, smp_vars, pic_vars>>

\* a destroy that forgets the reads in progress
DestroyEventsPendingOnly == {reads_pending[i].ev : i \in DOMAIN reads_pending}

\* Attachment::destroy: the events of the trigger
DestroyEvents == {reads_pending[i].ev : i \in DOMAIN reads_pending}
                     \cup MapValues(reads_in_progress)

\* Attachment::close for fc == manager, then VirtualFS::close_removed:
\* the node is removed and the trigger of destroy() is run
ManagerClose ==
    /\ ~destroyed /\ ~panicked
    /\ destroyed' = TRUE
    /\ fired' = [e \in Events |-> IF e \in DestroyEvents THEN fired[e] + 1 ELSE fired[e]]
    /\ ret' = Ret("close", Manager, 0, "Destroy", 0, 0, <<>>, FALSE)
    /\ UNCHANGED <<manager_pending_data, reads_pending, reads_in_progress,
                   reads_completed, closed_pending, next_event_id, panicked,
                   minted, asked, last_delivered, dropped, waiting>>
    /\ UNCHANGED <<vfs_vars, clock_vars, smp_vars, pic_vars>>

\* VirtualFS::read through a descriptor whose node is gone: node_mut fails
ReadDestroyed(fc, len) ==
    /\ destroyed /\ ~panicked
    /\ ret' = Ret("read", fc, len, "fs_file_destroyed", 0, 0, <<>>, FALSE)
    /\ UNCHANGED <<manager_pending_data, reads_pending, reads_in_progress,
                   reads_completed, closed_pending, next_event_id, destroyed, panicked,
                   minted, asked, fired, last_delivered, dropped, waiting>>
    /\ UNCHANGED <<vfs_vars, clock_vars, smp_vars, pic_vars>>

(***************************************************************************)
(* Specification                                                           *)
(***************************************************************************)
Next ==
    \/ \E fc \in Clients, len \in ClientBufLens : ClientRead(fc, len)
    \/ \E len \in ManagerBufLens : ManagerRead(len)
    \/ \E buf \in ManagerWriteBufs : ManagerWrite(buf)
    \/ \E fc \in Clients : ClientWrite(fc)
    \/ \E fc \in Clients : ClientClose(fc)
    \/ ManagerClose
    \/ \E fc \in Clients, len \in ClientBufLens : ReadDestroyed(fc, len)

Spec == Init /\ [][Next]_vars

(***************************************************************************)
(* VirtualFS: the system calls and the process lifecycle hook              *)
(***************************************************************************)
\* The processes the scheduler spawns, and the descriptors a process allocates
Pids == {FirstPid, FirstPid + 1}
Fds == FirstFd..(FirstFd + MaxFds - 1)

\* Descriptors allocated in the tables of the live processes
RECURSIVE Allocated(_)
Allocated(pids) ==
    IF pids = {} THEN 0
    ELSE LET pid == CHOOSE p \in pids : TRUE
         IN  (descriptors[pid].next_fd - FirstFd) + Allocated(pids \ {pid})

\* Room for n more descriptors
Room(n) == Allocated(DOMAIN descriptors) + n <= MaxFds

\* Paths handed to open, attach, exec and fileinfo: a device, the attachment
\* point (a missing name until it is attached), a name below a leaf and the
\* program image.
OpenPaths == {<<"dev", "null">>, <<"srv", "echo">>}
AttachPaths == {<<"srv", "echo">>, <<"dev", "null", "x">>}
ExecPaths == {<<"bin", "x">>, <<"srv", "echo">>}
FileinfoPaths == {<<"dev", "null">>, <<"srv", "echo">>, <<"dev", "null", "x">>}

\* The filesystem as the operators above take it
VfsState ==
    [nodes |-> nodes, descriptors |-> descriptors, next_node_id |-> next_node_id,
     next_kernel_fd |-> next_kernel_fd, holders |-> holders, parked |-> parked,
     panic |-> FALSE, consumed |-> 0, lost |-> 0]

\* What a VirtualFS call returned; fileinfo also records the path it resolved
\* and the node it found, close and on_process_over the number of parked
\* clients that the triggers they ran have woken. taken is the number of
\* kernel descriptors the call has taken, consumed the number of events of
\* its sub-operations that it handed to the scheduler, lost the number of
\* those it did not.
VfsRet(op, path, kind, val, taken, consumed, lost) ==
    [op |-> op, path |-> path, kind |-> kind, val |-> val, taken |-> taken,
     consumed |-> consumed, lost |-> lost]

\* The call returned: the filesystem it left and its result
Return(s, op, path, kind, val) ==
    /\ nodes' = s.nodes
    /\ descriptors' = s.descriptors
    /\ next_node_id' = s.next_node_id
    /\ holders' = s.holders
    /\ parked' = s.parked
    /\ vret' = VfsRet(op, path, kind, val, s.next_kernel_fd - next_kernel_fd,
                      s.consumed, s.lost)
    /\ UNCHANGED panicked
    /\ UNCHANGED <<att_vars, clock_vars, smp_vars, pic_vars>>

\* expect, panic!, todo!, unimplemented! and assert! on the path of a call
KernelPanicWith(op, lost) ==
    /\ panicked' = TRUE
    /\ vret' = VfsRet(op, <<>>, "Panic", 0, 0, 0, lost)
    /\ UNCHANGED <<nodes, descriptors, next_node_id, holders, parked>>
    /\ UNCHANGED <<att_vars, clock_vars, smp_vars, pic_vars>>

KernelPanic(op) == KernelPanicWith(op, 0)

\* The end of a call that closes descriptors; others are the clients that
\* were parked on descriptors the call does not close
Finish(s, op, kind, others) ==
    IF s.panic THEN KernelPanic(op)
    ELSE Return(s, op, <<>>, kind, Cardinality(others \ s.parked))

\* VirtualFS::node_mut
NodeMut(ns, id) == IF id \in DOMAIN ns THEN "Success" ELSE "fs_file_destroyed"

\* VirtualFS::remove_node
RemoveNode(s, node_id) ==
    LET node   == s.nodes[node_id]
        ns     == MapRemove(s.nodes, node_id)
        result == RemoveChild(ns, node.parent, node_id)
    IN  IF node.parent = NoNode THEN [s EXCEPT !.nodes = ns]
        ELSE IF result.kind = "Success"
        THEN [TakeKernelFcs(s, result.taken) EXCEPT !.nodes = result.nodes]
        ELSE IF result.kind = "fs_file_destroyed" THEN [s EXCEPT !.nodes = ns]
        ELSE [s EXCEPT !.nodes = ns, !.panic = TRUE]

\* VirtualFS::close_removed: close on the node if it is still there; a
\* Destroy removes the node and runs the trigger of its destroy()
CloseRemoved(s, fc, node_id) ==
    LET left == [s EXCEPT !.holders = @ \ {[fc |-> fc, node |-> node_id]},
                          !.parked = {p \in @ : p.fc /= fc}]
    IN  IF s.panic THEN s
        ELSE IF node_id \notin DOMAIN s.nodes THEN left
        ELSE LET c == NodeClose(s.nodes[node_id], fc)
                 closed == [left EXCEPT !.nodes[node_id] = c.node,
                                        !.consumed = @ + c.events]
             IN  IF c.action = "Destroy"
                 THEN [RemoveNode(closed, node_id) EXCEPT
                           !.parked = {p \in @ : ~(p.node = node_id /\ p.fc \in Destroy(c.node))}]
                 ELSE closed

\* VirtualFS::open
Open(pid, path) ==
    /\ ~panicked
    /\ pid \in DOMAIN descriptors
    /\ Room(1)
    /\ LET r  == Resolve(nodes, path)
           fc == FileClientId(pid, descriptors[pid].next_fd)
       IN  IF r.kind = "Panic" THEN KernelPanic("open")
           ELSE IF r.kind /= "Success"
           THEN Return([TakeKernelFcs(VfsState, r.taken) EXCEPT !.nodes = r.nodes],
                       "open", <<>>, r.kind, 0)
           ELSE Return([TakeKernelFcs(VfsState, r.taken) EXCEPT
                            !.nodes = [r.nodes EXCEPT ![r.val] = NodeOpen(@, fc)],
                            !.descriptors[pid] = CreateId(@, r.val),
                            !.holders = @ \cup {[fc |-> fc, node |-> r.val]}],
                       "open", <<>>, "Success", 0)
    /\ UNCHANGED next_pid

\* VirtualFS::close: for a process that is over, whose table on_process_over
\* has removed, descriptors.get answers None and the call panics
Close(pid, fd) ==
    /\ ~panicked
    /\ IF pid \notin DOMAIN descriptors
       THEN pid < next_pid /\ KernelPanic("close")
       ELSE /\ fd \in DOMAIN descriptors[pid].descriptors
            /\ LET fc      == FileClientId(pid, fd)
                   node_id == descriptors[pid].descriptors[fd]
               IN  Finish(CloseRemoved(VfsState, fc, node_id), "close", "Success",
                          {p \in parked : p.fc /= fc})
    /\ UNCHANGED next_pid

\* an attach that does not open the node for its manager
AttachNoOpen(node, fc) == node

\* The open that ends VirtualFS::attach
AttachOpen(node, fc) == NodeOpen(node, fc)

\* VirtualFS::attach with a path
Attach(pid, path, is_leaf) ==
    /\ ~panicked
    /\ pid \in DOMAIN descriptors
    /\ Room(1)
    /\ \E parent \in {Resolve(nodes, Front(path))} :
         IF parent.kind = "Panic" THEN KernelPanic("attach")
         ELSE IF parent.kind /= "Success"
         THEN Return(TakeKernelFcs(VfsState, parent.taken), "attach", <<>>, parent.kind, 0)
         ELSE LET fc   == FileClientId(pid, descriptors[pid].next_fd)
                  node == NewNode(parent.val, "Attachment",
                                  IF is_leaf THEN "Leaf" ELSE "Branch", fc)
              IN  \E c \in {CreateNodeWith([TakeKernelFcs(VfsState, parent.taken) EXCEPT
                                                !.nodes = parent.nodes],
                                            parent.val, Last(path), node)} :
                      IF c.kind = "Panic" THEN KernelPanic("attach")
                      ELSE IF c.kind /= "Success"
                      THEN Return(c.s, "attach", <<>>, c.kind, 0)
                      ELSE Return([c.s EXCEPT
                                       !.descriptors[pid] = CreateId(@, c.val),
                                       !.nodes[c.val] = AttachOpen(@, fc),
                                       !.holders = @ \cup {[fc |-> fc, node |-> c.val]}],
                                  "attach", <<>>, "Success", 0)
    /\ UNCHANGED next_pid

\* take_kernel_fc in kernel_exec: the kernel descriptors are not counted, the
\* two that the exec of new_pid takes are told apart by new_pid.
ExecKernelFc(new_pid, k) == FileClientId(KernelPid, 2 * new_pid + k)

\* VirtualFS::exec_optional_owner: exec for a process, kernel_exec for the kernel
Exec(owner, path) ==
    /\ ~panicked
    /\ next_pid \in Pids
    /\ owner /= KernelPid => owner \in DOMAIN descriptors
    /\ \E image \in {Resolve(nodes, path)} :
         IF image.kind = "Panic"
         THEN KernelPanic("exec") /\ UNCHANGED next_pid
         ELSE IF image.kind /= "Success"
         THEN Return(TakeKernelFcs(VfsState, image.taken), "exec", <<>>, image.kind, 0)
              /\ UNCHANGED next_pid
         ELSE \E loaded \in {ReadFile(image.nodes, image.val)} :
           IF loaded.kind = "Panic"
           THEN KernelPanic("exec") /\ UNCHANGED next_pid
           ELSE IF loaded.events > 0
           THEN \* load_module: expect_events makes an IoResultPure of the result
                \* of read_file and is given no scheduler; it ends the kernel
                \* or goes on without the events
                /\ \/ KernelPanicWith("exec", loaded.events)
                   \/ Return([TakeKernelFcs(VfsState, image.taken + loaded.taken) EXCEPT
                                  !.nodes = loaded.nodes, !.lost = loaded.events],
                             "exec", <<>>, loaded.kind, 0)
                /\ UNCHANGED next_pid
           ELSE IF loaded.kind /= "Success"
           THEN Return([TakeKernelFcs(VfsState, image.taken + loaded.taken) EXCEPT
                            !.nodes = loaded.nodes],
                       "exec", <<>>, loaded.kind, 0)
                /\ UNCHANGED next_pid
           ELSE IF owner /= KernelPid /\ ~Room(2) THEN FALSE
           ELSE LET owner_node_id == image.val
                    exe_fc == IF owner = KernelPid THEN ExecKernelFc(next_pid, 0)
                              ELSE FileClientId(owner, descriptors[owner].next_fd)
                    new_pid == next_pid
                    \* load_module resolves the path and opens the image, the
                    \* call resolves the path again, kernel_exec takes a descriptor
                    took == 2 * image.taken + loaded.taken
                                + (IF owner = KernelPid THEN 1 ELSE 0)
                IN  \E s1 \in {[TakeKernelFcs(VfsState, took) EXCEPT
                                    !.descriptors =
                                        IF owner = KernelPid THEN @
                                        ELSE [@ EXCEPT ![owner] = CreateId(@, owner_node_id)],
                                    !.nodes = [loaded.nodes EXCEPT ![owner_node_id] = IncRef(@)],
                                    !.holders = @ \cup {[fc |-> exe_fc, node |-> owner_node_id]}]} :
                    \E directory_id \in {Resolve(s1.nodes, <<"prc">>)} :
                      IF directory_id.kind /= "Success"
                      THEN KernelPanic("exec") /\ UNCHANGED next_pid
                      ELSE \E c \in {CreateNodeWith(TakeKernelFcs(s1, directory_id.taken),
                                                     directory_id.val, ToString(new_pid),
                                                     NewNode(directory_id.val, "ProcessFile",
                                                             "Leaf", KernelFc))} :
                        LET fc == IF owner = KernelPid THEN ExecKernelFc(new_pid, 1)
                                  ELSE FileClientId(owner, s1.descriptors[owner].next_fd)
                            with_process ==
                                MapInsert(c.s.descriptors, new_pid, ProcessDescriptorsNew(c.val))
                        IN  IF c.kind = "Panic"
                            THEN KernelPanic("exec") /\ UNCHANGED next_pid
                            ELSE IF c.kind /= "Success"
                            THEN Return(c.s, "exec", <<>>, c.kind, 0)
                                 /\ next_pid' = next_pid + 1
                            ELSE Return([TakeKernelFcs(c.s, IF owner = KernelPid THEN 1 ELSE 0)
                                         EXCEPT
                                             !.descriptors =
                                                 IF owner = KernelPid THEN with_process
                                                 ELSE [with_process EXCEPT
                                                           ![owner] = CreateId(@, c.val)],
                                             !.nodes[c.val] = NodeOpen(@, fc),
                                             !.holders = @ \cup {[fc |-> fc, node |-> c.val]}],
                                        "exec", <<>>, "Success", 0)
                                 /\ next_pid' = next_pid + 1

\* Orders in which the descriptor table of a process may be iterated
Orders(S) ==
    {o \in [1..Cardinality(S) -> S] : \A i, j \in 1..Cardinality(S) : i /= j => o[i] /= o[j]}

\* a loop that closes nothing
CloseNone(s, pid, fds, order) == s

\* The loop of on_process_over over the descriptors of the process
RECURSIVE CloseAll(_, _, _, _)
CloseAll(s, pid, fds, order) ==
    IF order = <<>> THEN s
    ELSE CloseAll(CloseRemoved(s, FileClientId(pid, Head(order)), fds[Head(order)]),
                  pid, fds, Tail(order))

\* VirtualFS::on_process_over
OnProcessOver(pid) ==
    /\ ~panicked
    /\ pid \in DOMAIN descriptors
    /\ LET pd == descriptors[pid]
           status == IF pd.node_id \in DOMAIN nodes
                     THEN WriteStatus(nodes, pd.node_id)
                     ELSE [kind |-> "Success", nodes |-> nodes, taken |-> 0]
           s == [TakeKernelFcs(VfsState, status.taken) EXCEPT
                                 !.descriptors = MapRemove(@, pid),
                                 !.nodes = status.nodes,
                                 !.panic = (status.kind = "Panic")]
       IN  \E order \in Orders(DOMAIN pd.descriptors) :
               Finish(CloseAll(s, pid, pd.descriptors, order), "on_process_over",
                      "Success", {p \in parked : p.fc.process /= pid})
    /\ UNCHANGED next_pid

\* VirtualFS::read through a descriptor of an attachment: on a live
\* attachment, the read of a client
VfsRead(pid, fd) ==
    /\ ~panicked
    /\ pid \in DOMAIN descriptors
    /\ fd \in DOMAIN descriptors[pid].descriptors
    /\ LET fc      == FileClientId(pid, fd)
           node_id == descriptors[pid].descriptors[fd]
       IN  IF NodeMut(nodes, node_id) /= "Success"
           THEN Return(VfsState, "read", <<>>, NodeMut(nodes, node_id), 0)
           ELSE /\ node_id \in DOMAIN nodes
                /\ nodes[node_id].data = "Attachment"
                /\ fc /= nodes[node_id].manager
                /\ \E read \in {AttachmentReadNew(nodes[node_id], fc)} :
                     Return([VfsState EXCEPT
                                 !.nodes[node_id] = read.node,
                                 !.parked = @ \cup {[fc |-> fc, node |-> node_id]},
                                 !.consumed = @ + read.events],
                            "read", <<>>, "RepeatAfter", 0)
    /\ UNCHANGED next_pid

\* VirtualFS::write through a descriptor of an attachment: on a live
\* attachment, the write of a client
VfsWrite(pid, fd) ==
    /\ ~panicked
    /\ pid \in DOMAIN descriptors
    /\ fd \in DOMAIN descriptors[pid].descriptors
    /\ LET fc      == FileClientId(pid, fd)
           node_id == descriptors[pid].descriptors[fd]
       IN  IF NodeMut(nodes, node_id) /= "Success"
           THEN Return(VfsState, "write", <<>>, NodeMut(nodes, node_id), 0)
           ELSE /\ node_id \in DOMAIN nodes
                /\ nodes[node_id].data = "Attachment"
                /\ fc /= nodes[node_id].manager
                /\ KernelPanic("write")
    /\ UNCHANGED next_pid

\* VirtualFS::fileinfo: resolve the path
Fileinfo(path) ==
    /\ ~panicked
    /\ LET id == Resolve(nodes, path)
       IN  IF id.kind = "Panic" THEN KernelPanic("fileinfo")
           ELSE Return([TakeKernelFcs(VfsState, id.taken) EXCEPT !.nodes = id.nodes],
                       "fileinfo", path, id.kind, id.val)
    /\ UNCHANGED next_pid

\* Paths handed to create_static_branch after boot
StaticBranchPaths == {<<"dev">>}

\* VirtualFS::create_static_branch
CreateStaticBranch(path) ==
    /\ ~panicked
    /\ \E c \in {CreateStatic(VfsState, path, "InternalBranch", "InternalBranch")} :
         IF c.kind = "Panic" THEN KernelPanic("create_static_branch")
         ELSE Return(c.s, "create_static_branch", <<>>, c.kind, 0)
    /\ UNCHANGED next_pid

\* The value of next_kernel_fd decides nothing in a call, and every call that
\* resolves a path moves it: this specification leaves it where boot left it
\* and keeps in vret how many descriptors the call took.
Uncounted == UNCHANGED next_kernel_fd

VfsNext ==
    \/ \E pid \in Pids, path \in OpenPaths : Open(pid, path) /\ Uncounted
    \/ \E pid \in Pids, fd \in Fds : Close(pid, fd) /\ Uncounted
    \/ \E pid \in Pids, path \in AttachPaths : Attach(pid, path, TRUE) /\ Uncounted
    \/ \E owner \in Pids \cup {KernelPid}, path \in ExecPaths : Exec(owner, path) /\ Uncounted
    \/ \E pid \in Pids : OnProcessOver(pid) /\ Uncounted
    \/ \E pid \in Pids, fd \in Fds : VfsRead(pid, fd) /\ Uncounted
    \/ \E pid \in Pids, fd \in Fds : VfsWrite(pid, fd) /\ Uncounted
    \/ \E path \in FileinfoPaths : Fileinfo(path) /\ Uncounted
    \/ \E path \in StaticBranchPaths : CreateStaticBranch(path) /\ Uncounted

VfsSpec == Init /\ [][VfsNext]_vars

\* The calls with next_kernel_fd followed: it moves on by the descriptors the
\* call took, for as long as MaxKernelFds allows.
Counted ==
    /\ next_kernel_fd' = next_kernel_fd + vret'.taken
    /\ next_kernel_fd' <= Boot.next_kernel_fd + MaxKernelFds

IdNext ==
    \/ \E pid \in Pids, path \in OpenPaths : Open(pid, path) /\ Counted
    \/ \E pid \in Pids, fd \in Fds : Close(pid, fd) /\ Counted
    \/ \E pid \in Pids, path \in AttachPaths : Attach(pid, path, TRUE) /\ Counted
    \/ \E owner \in Pids \cup {KernelPid}, path \in ExecPaths : Exec(owner, path) /\ Counted
    \/ \E pid \in Pids : OnProcessOver(pid) /\ Counted
    \/ \E pid \in Pids, fd \in Fds : VfsRead(pid, fd) /\ Counted
    \/ \E pid \in Pids, fd \in Fds : VfsWrite(pid, fd) /\ Counted
    \/ \E path \in FileinfoPaths : Fileinfo(path) /\ Counted
    \/ \E path \in StaticBranchPaths : CreateStaticBranch(path) /\ Counted

IdSpec == Init /\ [][IdNext]_vars

(***************************************************************************)
(* Properties                                                              *)
(***************************************************************************)
\* The attachment is in service: not destroyed, and no call ended in a panic.
Alive == ~destroyed /\ ~panicked

InPending(fc) == fc \in PendingFcs
InProgress(fc) == fc \in DOMAIN reads_in_progress
InCompleted(fc) == fc \in DOMAIN reads_completed

\* C1 (P1, I1): in every state reached through client reads, manager reads,
\* manager writes and client closes, each client is in at most one of
\* reads_pending, reads_in_progress and reads_completed.
C1_AtMostOneQueue ==
    \A fc \in Clients :
        /\ ~(InPending(fc) /\ InProgress(fc))
        /\ ~(InPending(fc) /\ InCompleted(fc))
        /\ ~(InProgress(fc) /\ InCompleted(fc))

\* C2 (P2, I2): after every operation that completed, manager_pending_data is
\* available exactly when reads_pending or closed_pending is nonempty.
C2_PendingDataIffQueued ==
    ~panicked =>
        (manager_pending_data <=> (reads_pending /= <<>> \/ closed_pending /= <<>>))

\* A manager read took a request and left only a close behind: the flag stays up.
C2_Witness ==
    /\ ret.op = "manager_read" /\ ret.kind = "Success"
    /\ reads_pending = <<>> /\ closed_pending /= <<>>
    /\ manager_pending_data

Minted == 1..(next_event_id - 1)
QueuedEvents == {reads_pending[i].ev : i \in DOMAIN reads_pending}
                    \cup MapValues(reads_in_progress)

\* C3 (P3, I3) as stated: every event minted by a client read is fired exactly
\* once over the attachment's lifetime, never twice and, once the attachment
\* is destroyed, never zero times.
C3_FiredExactlyOnce ==
    /\ \A e \in Events : fired[e] <= 1
    /\ destroyed => \A e \in Minted : fired[e] = 1

\* C3 as amended: an event is fired at most once, by the Response that answers
\* it or by destroy when it is then still queued; an event whose entry a
\* client close removed is never fired; nothing is fired before it is minted
\* or while it still waits in a queue of a live attachment.
C3_FiredAtMostOnce ==
    \A e \in Events :
        /\ fired[e] <= 1
        /\ e \in dropped => fired[e] = 0
        /\ e \notin Minted => fired[e] = 0
        /\ e \in QueuedEvents => fired[e] = (IF destroyed THEN 1 ELSE 0)

\* Destroy fired a read in progress, after a close had dropped another event.
C3_Witness ==
    /\ destroyed
    /\ dropped /= {}
    /\ \E fc \in DOMAIN reads_in_progress : fired[reads_in_progress[fc]] = 1

\* C4 (P6): Read requests reach the manager in the order in which the client
\* reads arrived in reads_pending: every read still pending arrived after the
\* last one delivered, and the frame delivered names the client of that read.
C4_Fifo ==
    /\ \A i \in DOMAIN reads_pending : reads_pending[i].ev > last_delivered
    /\ \A i, j \in DOMAIN reads_pending : i < j => reads_pending[i].ev < reads_pending[j].ev
    /\ (ret.op = "manager_read" /\ ret.kind = "Success"
            /\ DecodeRequest(ret.buf).tag = TagRead) =>
           DecodeRequest(ret.buf).sender = Sender(minted[last_delivered])

\* The reads of two different clients were both delivered, the second just now.
C4_Witness ==
    /\ ret.op = "manager_read" /\ ret.kind = "Success"
    /\ DecodeRequest(ret.buf).tag = TagRead
    /\ last_delivered = 2
    /\ minted[1] /= minted[2]
    /\ 1 \notin dropped /\ InProgress(minted[1]) /\ InProgress(minted[2])

\* The wait a client was told about has resolved.
Resolved(fc) == waiting[fc] /= 0 /\ fired[waiting[fc]] >= 1

C6_OncePending ==
    \A i, j \in DOMAIN reads_pending :
        i /= j => reads_pending[i].fc /= reads_pending[j].fc

\* C7: a manager read serves closed_pending first: while a close waits the
\* manager receives the Close of the oldest closed client, and a Read request
\* is delivered only when closed_pending is empty.
C7_ClosesFirst ==
    [][(ret'.op = "manager_read" /\ ret'.kind = "Success") =>
          IF closed_pending /= <<>>
          THEN /\ DecodeRequest(ret'.buf).tag = TagClose
               /\ DecodeRequest(ret'.buf).sender = Sender(Head(closed_pending))
               /\ closed_pending' = Tail(closed_pending)
               /\ reads_pending' = reads_pending
          ELSE /\ DecodeRequest(ret'.buf).tag = TagRead
               /\ reads_pending /= <<>>
      ]_vars

\* The manager was handed a Close while a read request was waiting.
C7_Witness ==
    /\ ret.op = "manager_read" /\ ret.kind = "Success"
    /\ DecodeRequest(ret.buf).tag = TagClose
    /\ reads_pending /= <<>>

\* C8: the manager's Response for a client whose read is in progress returns
\* TriggerEvent(e, Success(n)), e the event that client's read was told to wait
\* on and n the length of the framed Response; the client's next read with
\* room for the data returns Success(|d|) and exactly d.
C8_ResponseRoundTrip ==
    [][/\ (ret'.op = "write" /\ ret'.kind = "TriggerEvent") =>
              /\ InProgress(ret'.fc)
              /\ ret'.ev = reads_in_progress[ret'.fc]
              /\ minted[ret'.ev] = ret'.fc
              /\ ret'.val = Len(EncodeResponse(Sender(ret'.fc), ret'.buf))
              /\ fired'[ret'.ev] = fired[ret'.ev] + 1
       /\ (ret.op = "write" /\ ret.kind = "TriggerEvent" /\ Alive
               /\ ret'.op = "read" /\ ret'.fc = ret.fc /\ ret'.len >= Len(ret.buf)) =>
              /\ ret'.kind = "Success"
              /\ ret'.val = Len(ret.buf)
              /\ ret'.buf = ret.buf
      ]_vars

\* The client read back "hel" right after the manager wrote it.
C8_Witness ==
    /\ ret.op = "read" /\ ret.kind = "Success"
    /\ ret.buf = <<104, 101, 108>>
    /\ Resolved(ret.fc)
    /\ reads_completed[ret.fc] = <<>>

\* C9: the Read(n) the manager receives carries the length of the client's
\* read buffer, whatever the size of the manager's own buffer.
C9_ReadCarriesClientLen ==
    [][(ret'.op = "manager_read" /\ ret'.kind = "Success"
            /\ DecodeRequest(ret'.buf).tag = TagRead) =>
           DecodeRequest(ret'.buf).n = asked[Head(reads_pending).ev]
      ]_vars

\* C10: a read on an answered request returns the next min(buf.len(), bytes
\* remaining) bytes of the response, in order; on a drained response it returns
\* Success(0); it keeps the entry and enqueues no request.
C10_Drain ==
    [][(Alive /\ ret'.op = "read" /\ InCompleted(ret'.fc)) =>
          LET fc   == ret'.fc
              data == reads_completed[fc]
              n    == IF ret'.len <= Len(data) THEN ret'.len ELSE Len(data)
          IN  /\ ret'.kind = "Success"
              /\ ret'.val = n
              /\ ret'.buf = SubSeq(data, 1, n)
              /\ fc \in DOMAIN reads_completed'
              /\ reads_completed'[fc] = SubSeq(data, n + 1, Len(data))
              /\ UNCHANGED <<reads_pending, reads_in_progress, closed_pending,
                             next_event_id>>
      ]_vars

\* A one-byte read took the first byte of a response and left the rest.
C10_Witness ==
    /\ ret.op = "read" /\ ret.kind = "Success"
    /\ ret.len = 1 /\ ret.val = 1 /\ ret.buf = <<104>>
    /\ reads_completed[ret.fc] = <<101, 108>>

\* The entries of reads_pending that belong to other clients than fc, in order
PendingOfOthers(q, fc) == LET Other(r) == r.fc /= fc IN SelectSeq(q, Other)

\* C13: a client close removes that client's entries from reads_pending,
\* reads_in_progress and reads_completed, appends the client to
\* closed_pending, returns Normal, and leaves the entries of every other
\* client and the order of the remaining entries unchanged.
C13_ClientCloseEffect ==
    [][(ret'.op = "close" /\ ret'.kind = "Normal") =>
          LET fc == ret'.fc
          IN  /\ reads_pending' = PendingOfOthers(reads_pending, fc)
              /\ reads_in_progress' = MapRemove(reads_in_progress, fc)
              /\ reads_completed' = MapRemove(reads_completed, fc)
              /\ closed_pending' = Append(closed_pending, fc)
              /\ ~destroyed'
      ]_vars

\* The client a whole Response names as its sender
NamedClient(buf) ==
    FileClientId(TakeResponse(buf).sender.pid, TakeResponse(buf).sender.f)

\* C14: a manager write whose Response names a sender with no entry in
\* reads_in_progress is rejected with fs_protocol and leaves every queue of
\* the attachment unchanged.
C14_UnknownSenderRejected ==
    [][\A buf \in ManagerWriteBufs :
          (/\ ManagerWrite(buf)
           /\ ResponseComplete(buf)
           /\ NamedClient(buf) \notin DOMAIN reads_in_progress) =>
              /\ ret'.op = "write" /\ ret'.kind = "fs_protocol"
              /\ ~panicked'
              /\ UNCHANGED queues
      ]_vars

\* C15: a manager read whose buffer is too small for the serialized Request
\* that is next fails with fs_protocol.
C15_SmallBufferRejected ==
    [][\A len \in ManagerBufLens :
          (/\ ManagerRead(len)
           /\ ManagerReadChoice /= "none"
           /\ len < Len(IF ManagerReadChoice = "close"
                        THEN EncodeRequestClose(Head(closed_pending))
                        ELSE EncodeRequestRead(Head(reads_pending).fc, len))) =>
              /\ ret'.op = "manager_read" /\ ret'.kind = "fs_protocol"
              /\ ~panicked'
      ]_vars

\* C16: no sequence of open, read, write, close, attach and exec calls of
\* user processes, together with process terminations, ends in a kernel
\* panic.
C16_NoKernelPanic == ~panicked

\* The descriptors opened on node n and not closed since
HoldersOf(n) == {h \in holders : h.node = n}

\* C17: every node in VirtualFS.nodes has refcount > 0 whenever a call of
\* open, close, attach, exec or on_process_over has completed.
C17_RefcountPositive ==
    \A n \in DOMAIN nodes : nodes[n].refcount > 0

\* A client closed its descriptor of an attachment; the node stays with the
\* one reference of its manager.
C17_Witness ==
    /\ vret.op = "close" /\ vret.kind = "Success"
    /\ \E n \in DOMAIN nodes :
           /\ nodes[n].data = "Attachment"
           /\ nodes[n].refcount = 1
           /\ HoldersOf(n) = {[fc |-> nodes[n].manager, node |-> n]}
           /\ \E pid \in DOMAIN descriptors, fd \in Fds :
                  /\ fd \in DOMAIN descriptors[pid].descriptors
                  /\ descriptors[pid].descriptors[fd] = n
                  /\ FileClientId(pid, fd) /= nodes[n].manager

\* The references node n should hold: one for each descriptor opened on it and
\* not closed since, and one more for a node created as permanent
References(n) ==
    Cardinality(HoldersOf(n)) + (IF n \in StaticNodes THEN 1 ELSE 0)

\* C18: the refcount of a node equals the number of FileClientIds that opened
\* it and have not closed it, plus one for a permanent node; closing a
\* descriptor again, or the end of the process after a close, lowers the
\* count only once for each open.
C18_RefcountCountsHolders ==
    \A n \in DOMAIN nodes : nodes[n].refcount = References(n)

\* The root, the top-level directories and the devices of /dev
PermanentNodes == DOMAIN CreateAll(VirtualFSNew, FsEntries).nodes

\* C19: the root and every node created as permanent stay in VirtualFS.nodes
\* under every sequence of opens, closes and process terminations.
C19_PermanentNodesStay == PermanentNodes \subseteq DOMAIN nodes

\* The nodes resolve(path) walks through in the node table ns
OnPath(ns, path) ==
    {Resolve(ns, SubSeq(path, 1, k)).val : k \in 0..Len(path)} \ {NoNode}

\* What resolve(path) answers in the node table ns
ResolveAnswer(ns, path) ==
    LET Answer(r) == [kind |-> r.kind, val |-> r.val] IN Answer(Resolve(ns, path))

ParkedOn(n) == {p \in parked : p.node = n}

\* The step is the manager of attachment n closing its descriptor
ManagerCloses(n) ==
    Close(nodes[n].manager.process, nodes[n].manager.fd)

\* The step is the end of the process of the manager of attachment n
ManagerTerminates(n) ==
    /\ vret'.op = "on_process_over"
    /\ nodes[n].manager.process \in DOMAIN descriptors
    /\ nodes[n].manager.process \notin DOMAIN descriptors'

\* C11: when the manager closes its descriptor, or the manager's process
\* ends, the attachment is destroyed and every client parked in a read on it
\* is woken; no client is ever left parked on a destroyed attachment.
C11_ManagerGoneWakesAll ==
    [][/\ \A n \in DOMAIN nodes :
              (/\ nodes[n].data = "Attachment"
               /\ ManagerCloses(n) \/ ManagerTerminates(n)
               /\ ~panicked') =>
                  /\ n \notin DOMAIN nodes'
                  /\ ParkedOn(n) \cap parked' = {}
                  /\ vret'.val >= Cardinality({p \in ParkedOn(n) :
                                                  p.fc.process /= nodes[n].manager.process})
       /\ \A p \in parked' : p.node \in DOMAIN nodes'
      ]_vars

\* The manager's process ended while a client of another process was parked
\* in a read: the client was woken and its descriptor outlives the node.
C11_Witness ==
    /\ vret.op = "on_process_over" /\ vret.val = 1
    /\ parked = {}
    /\ \E h \in holders : h.node \notin DOMAIN nodes /\ h.fc.process \in DOMAIN descriptors

\* The node that descriptor fd of process pid refers to
NodeOf(pid, fd) == descriptors[pid].descriptors[fd]

\* C12: once the node of an attachment is destroyed, every read or write of a
\* client through a descriptor that still refers to it returns
\* fs_file_destroyed, and the descriptor never reaches another node created
\* later: a descriptor keeps its NodeId, and the NodeId of a new node was
\* never in use before.
C12_DestroyedStaysDestroyed ==
    [][/\ \A pid \in Pids, fd \in Fds :
              (/\ VfsRead(pid, fd) \/ VfsWrite(pid, fd)
               /\ NodeOf(pid, fd) \notin DOMAIN nodes) =>
                  /\ vret'.kind = "fs_file_destroyed"
                  /\ nodes' = nodes
       /\ \A pid \in DOMAIN descriptors \cap DOMAIN descriptors' :
              \A fd \in DOMAIN descriptors[pid].descriptors :
                  /\ fd \in DOMAIN descriptors'[pid].descriptors
                  /\ descriptors'[pid].descriptors[fd] = NodeOf(pid, fd)
                  /\ NodeOf(pid, fd) < next_node_id
       /\ \A n \in DOMAIN nodes' \ DOMAIN nodes :
              n >= next_node_id /\ n < next_node_id'
      ]_vars

\* A read returned fs_file_destroyed through a descriptor whose attachment is
\* gone, while an attachment created later is in the node table.
C12_Witness ==
    /\ vret.op = "read" /\ vret.kind = "fs_file_destroyed"
    /\ \E pid \in DOMAIN descriptors :
           \E fd \in DOMAIN descriptors[pid].descriptors :
               /\ [fc |-> FileClientId(pid, fd), node |-> NodeOf(pid, fd)] \in holders
               /\ NodeOf(pid, fd) \notin DOMAIN nodes
               /\ NodeOf(pid, fd) \notin StaticNodes
               /\ \E n \in DOMAIN nodes :
                      n > NodeOf(pid, fd) /\ nodes[n].data = "Attachment"


\* C21: creating a node under a parent that already lists a child of that
\* name (attach, create_static_branch) returns fs_node_exists, and a creation
\* that returns fs_node_exists leaves the node table with its listings and
\* reference counts, next_node_id and every descriptor table as they were.
ListsChild(ns, path) ==
    LET Named(parent) ==
            /\ parent.kind = "Success"
            /\ \E i \in DOMAIN ns[parent.val].listing :
                   ns[parent.val].listing[i].name = Last(path)
    IN  Named(ResolveAnswer(ns, Front(path)))

C21_DuplicateCreation ==
    [][/\ \A pid \in Pids, path \in AttachPaths :
              (ListsChild(nodes, path) /\ Attach(pid, path, TRUE)) =>
                  vret'.kind = "fs_node_exists"
       /\ \A path \in StaticBranchPaths :
              (ListsChild(nodes, path) /\ CreateStaticBranch(path)) =>
                  vret'.kind = "fs_node_exists"
       /\ vret'.kind = "fs_node_exists" =>
              /\ nodes' = nodes
              /\ next_node_id' = next_node_id
              /\ descriptors' = descriptors]_vars

\* a second attach at the same path was answered fs_node_exists
C21_Witness ==
    /\ vret.op = "attach" /\ vret.kind = "fs_node_exists"
    /\ ListsChild(nodes, <<"srv", "echo">>)


\* The node that the names of path lead to from cursor through the listings,
\* NoNode when a name is not listed
RECURSIVE Walk(_, _, _)
Walk(ns, cursor, path) ==
    IF path = <<>> THEN cursor
    ELSE IF cursor \notin DOMAIN ns THEN NoNode
    ELSE LET named == {i \in DOMAIN ns[cursor].listing :
                           ns[cursor].listing[i].name = Head(path)}
         IN  IF named = {} THEN NoNode
             ELSE Walk(ns, ns[cursor].listing[CHOOSE i \in named : \A j \in named : i <= j].id,
                       Tail(path))

\* The path goes on after a Leaf
PastLeaf(ns, path) ==
    \E k \in 0..(Len(path) - 1) :
        LET n == Walk(ns, ROOT_ID, SubSeq(path, 1, k))
        IN  n \in DOMAIN ns /\ ns[n].leafness = "Leaf"

\* Names asked of a leaf, and paths that go on after a device, an attachment
\* and a file
LeafChildNames == {"x", "null", "echo"}
PastLeafPaths ==
    FileinfoPaths \cup {<<"srv", "echo", "x">>, <<"dev", "null", "x", "y">>, <<"bin", "x", "y">>}

\* C22: get_children and get_child of a Leaf node answer fs_node_is_leaf, and
\* so does resolve of a path that goes on after a Leaf, as fileinfo shows.
C22_LeafTraversal ==
    /\ \A n \in DOMAIN nodes :
           nodes[n].leafness = "Leaf" =>
               /\ GetChildren(nodes, n).kind = "fs_node_is_leaf"
               /\ \A name \in LeafChildNames :
                      GetChild(nodes, n, name).kind = "fs_node_is_leaf"
    /\ \A path \in PastLeafPaths :
           PastLeaf(nodes, path) => Resolve(nodes, path).kind = "fs_node_is_leaf"
    /\ (vret.op = "fileinfo" /\ PastLeaf(nodes, vret.path)) =>
           vret.kind = "fs_node_is_leaf"

\* fileinfo of a name below the device /dev/null was answered
\* fs_node_is_leaf, while an attachment leaf is in the tree
C22_Witness ==
    /\ vret.op = "fileinfo" /\ vret.path = <<"dev", "null", "x">>
    /\ vret.kind = "fs_node_is_leaf"
    /\ PastLeaf(nodes, <<"srv", "echo", "x">>)


\* The descriptors in the table of a process
FdsOf(ds, pid) == IF pid \in DOMAIN ds THEN DOMAIN ds[pid].descriptors ELSE {}

\* C23: NodeIds, the descriptors of each process and the kernel descriptors
\* are handed out in increasing order and none twice: every identifier in
\* use is below its counter, a counter never goes back, the identifiers a
\* call hands out are the values its counter passes, and a call that
\* resolved a path has taken kernel descriptors and moved next_kernel_fd on.
C23_IdsNeverReused ==
    [][/\ \A n \in DOMAIN nodes' : n < next_node_id'
       /\ next_node_id' >= next_node_id
       /\ (DOMAIN nodes' \ DOMAIN nodes) \subseteq next_node_id..(next_node_id' - 1)
       /\ \A pid \in DOMAIN descriptors' :
              LET old_next == IF pid \in DOMAIN descriptors
                              THEN descriptors[pid].next_fd ELSE FirstFd
              IN  /\ \A fd \in FdsOf(descriptors', pid) : fd < descriptors'[pid].next_fd
                  /\ descriptors'[pid].next_fd >= old_next
                  /\ (FdsOf(descriptors', pid) \ FdsOf(descriptors, pid))
                         \subseteq old_next..(descriptors'[pid].next_fd - 1)
                  /\ FdsOf(descriptors, pid) \subseteq FdsOf(descriptors', pid)
       /\ next_kernel_fd' >= next_kernel_fd
       /\ (~panicked' /\ vret'.op \in {"open", "attach", "exec", "fileinfo"}) =>
              /\ vret'.taken >= 1
              /\ next_kernel_fd' = next_kernel_fd + vret'.taken
       /\ (~panicked' /\ vret'.op = "exec" /\ vret'.kind = "Success"
              /\ DOMAIN descriptors = {}) => vret'.taken >= 2]_vars

\* an attach was given a new node and a new descriptor after an earlier node
\* was removed
C23_Witness ==
    /\ vret.op = "attach" /\ vret.kind = "Success"
    /\ (next_node_id - 1) \in DOMAIN nodes
    /\ \E n \in Boot.next_node_id..(next_node_id - 2) : n \notin DOMAIN nodes
    /\ \E pid \in DOMAIN descriptors : descriptors[pid].next_fd >= FirstFd + 2
    /\ next_kernel_fd > Boot.next_kernel_fd


\* The descriptors of the table pd that name node n
FdsOn(pd, n) == {fd \in DOMAIN pd.descriptors : pd.descriptors[fd] = n}

\* C24: on_process_over(pid) returns without a panic, also when descriptors
\* of the process name nodes that are gone; afterwards the process has no
\* descriptor table, every node that is still there has lost one reference
\* for each descriptor of the process that named it, only nodes the process
\* had a descriptor for were removed, and no attachment managed by the
\* process is left.
C24_ProcessOver ==
    [][\A pid \in Pids :
          OnProcessOver(pid) =>
              /\ ~panicked'
              /\ vret'.kind = "Success"
              /\ pid \notin DOMAIN descriptors'
              /\ DOMAIN nodes' \subseteq DOMAIN nodes
              /\ \A n \in DOMAIN nodes' :
                     nodes'[n].refcount =
                         nodes[n].refcount - Cardinality(FdsOn(descriptors[pid], n))
              /\ \A n \in DOMAIN nodes \ DOMAIN nodes' : FdsOn(descriptors[pid], n) /= {}
              /\ \A n \in DOMAIN nodes' :
                     ~(nodes'[n].data = "Attachment" /\ nodes'[n].manager.process = pid)
              /\ \A h \in holders' : h.fc.process /= pid]_vars

\* on_process_over has returned for a process that had been the manager of
\* an attachment: the attachment's node is gone and so is the table
C24_Witness ==
    /\ vret.op = "on_process_over" /\ vret.kind = "Success"
    /\ \E pid \in Pids : pid < next_pid /\ pid \notin DOMAIN descriptors
    /\ \E n \in (Boot.next_node_id + 1)..(next_node_id - 1) : n \notin DOMAIN nodes
    /\ ~ListsChild(nodes, <<"srv", "echo">>)


\* C25: every event that a sub-operation of a VirtualFS call has produced is
\* handed to the scheduler by the time the call is over, also when the call
\* answers with an error: no call ends with an event of its sub-operations
\* that was not handed on. (An exec of the path of a leaf attachment whose
\* manager's flag is not available ends, with RepeatAfter or in a kernel
\* panic, without the scheduler having been given the flag's event.)
C25_EventsDelivered == vret.lost = 0


(***************************************************************************)
(* SystemClock: tick on the core that takes the PIT interrupt, now on      *)
(* another core, one load or store of an atomic at a time                  *)
(***************************************************************************)
\* Ticks after which the clock is no longer followed
MaxTicks == 3
\* Calls of now that are followed
MaxNowCalls == 2

NANOS_PER_SEC == 1000000000
\* inc in tick: the period of the PIT in nanoseconds. The period taken here
\* makes a second roll over with the second tick.
inc == 600000000

\* tick: compare_and_swap on the lock
TickLock ==
    /\ ~panicked
    /\ tick_frame.pc = "idle"
    /\ tick_frame.ticks < MaxTicks
    /\ IF SYSCLOCK.lock
       THEN /\ panicked' = TRUE
            /\ UNCHANGED <<SYSCLOCK, tick_frame>>
       ELSE /\ SYSCLOCK' = [SYSCLOCK EXCEPT !.lock = TRUE]
            /\ tick_frame' = [tick_frame EXCEPT !.pc = "load_sec"]
            /\ UNCHANGED panicked
    /\ UNCHANGED <<SCHEDULER, now_frame, now_hist>>

\* tick: let mut sec = (*uc_sec).load
TickLoadSec ==
    /\ ~panicked
    /\ tick_frame.pc = "load_sec"
    /\ tick_frame' = [tick_frame EXCEPT !.pc = "load_nsec", !.sec = SYSCLOCK.sec]
    /\ UNCHANGED <<SYSCLOCK, SCHEDULER, now_frame, now_hist, panicked>>

\* a tick that adds inc and never carries into the seconds
AdvanceNoCarry(sec, nsec) == [sec |-> sec, nsec |-> nsec + inc]

\* The values tick computes from those it loaded; with nsec and inc below
\* NANOS_PER_SEC the sum stays within a u32
Advance(sec, nsec) ==
    IF nsec + inc >= NANOS_PER_SEC
    THEN [sec |-> sec + 1, nsec |-> (nsec + inc) - NANOS_PER_SEC]
    ELSE [sec |-> sec, nsec |-> nsec + inc]

\* tick: let mut nsec = (*uc_nsec).load, and the new values
TickLoadNsec ==
    /\ ~panicked
    /\ tick_frame.pc = "load_nsec"
    /\ \E new \in {Advance(tick_frame.sec, SYSCLOCK.nsec)} :
         tick_frame' = [tick_frame EXCEPT !.pc = "store_sec",
                                          !.sec = new.sec, !.nsec = new.nsec]
    /\ UNCHANGED <<SYSCLOCK, SCHEDULER, now_frame, now_hist, panicked>>

\* The pairs the clock has held while a call of now is under way
Held(clock) ==
    IF now_frame.pc = "idle" THEN now_hist
    ELSE [now_hist EXCEPT !.held = @ \cup {<<clock.sec, clock.nsec>>}]

\* tick: (*uc_sec).store(sec)
TickStoreSec ==
    /\ ~panicked
    /\ tick_frame.pc = "store_sec"
    /\ SYSCLOCK' = [SYSCLOCK EXCEPT !.sec = tick_frame.sec]
    /\ tick_frame' = [tick_frame EXCEPT !.pc = "store_nsec"]
    /\ now_hist' = Held(SYSCLOCK')
    /\ UNCHANGED <<SCHEDULER, now_frame, panicked>>

\* tick: (*uc_nsec).store(nsec)
TickStoreNsec ==
    /\ ~panicked
    /\ tick_frame.pc = "store_nsec"
    /\ SYSCLOCK' = [SYSCLOCK EXCEPT !.nsec = tick_frame.nsec]
    /\ tick_frame' = [tick_frame EXCEPT !.pc = "unlock"]
    /\ now_hist' = Held(SYSCLOCK')
    /\ UNCHANGED <<SCHEDULER, now_frame, panicked>>

\* tick: (*uc_lock).store(false)
TickUnlock ==
    /\ ~panicked
    /\ tick_frame.pc = "unlock"
    /\ SYSCLOCK' = [SYSCLOCK EXCEPT !.lock = FALSE]
    /\ tick_frame' = [tick_frame EXCEPT !.pc = "scheduler"]
    /\ UNCHANGED <<SCHEDULER, now_frame, now_hist, panicked>>

\* tick: SCHEDULER.try_lock(), then s.tick(self.now()) or the panic. No
\* other core writes the clock, so the now inside tick reads what tick stored.
TickScheduler ==
    /\ ~panicked
    /\ tick_frame.pc = "scheduler"
    /\ IF SCHEDULER.locked
       THEN /\ panicked' = TRUE
            /\ UNCHANGED <<SCHEDULER, tick_frame>>
       ELSE /\ SCHEDULER' = [SCHEDULER EXCEPT !.ticks = @ + 1,
                                              !.now = <<SYSCLOCK.sec, SYSCLOCK.nsec>>]
            /\ tick_frame' = [tick_frame EXCEPT !.pc = "idle", !.ticks = @ + 1]
            /\ UNCHANGED panicked
    /\ UNCHANGED <<SYSCLOCK, now_frame, now_hist>>

\* Another core takes the lock of the scheduler, or gives it back
SchedulerLock ==
    /\ ~panicked
    /\ SCHEDULER' = [SCHEDULER EXCEPT !.locked = ~@]
    /\ UNCHANGED <<SYSCLOCK, tick_frame, now_frame, now_hist, panicked>>

\* now is called: let mut prev_sec = (*uc_sec).load
NowLoadPrevSec ==
    /\ ~panicked
    /\ now_frame.pc = "idle"
    /\ Len(now_hist.returned) < MaxNowCalls
    /\ now_frame' = [now_frame EXCEPT !.pc = "prev_nsec", !.prev_sec = SYSCLOCK.sec]
    /\ now_hist' = [now_hist EXCEPT !.held = {<<SYSCLOCK.sec, SYSCLOCK.nsec>>}]
    /\ UNCHANGED <<SYSCLOCK, SCHEDULER, tick_frame, panicked>>

\* now: let mut prev_nsec = (*uc_nsec).load
NowLoadPrevNsec ==
    /\ ~panicked
    /\ now_frame.pc = "prev_nsec"
    /\ now_frame' = [now_frame EXCEPT !.pc = "sec", !.prev_nsec = SYSCLOCK.nsec]
    /\ UNCHANGED <<SYSCLOCK, SCHEDULER, tick_frame, now_hist, panicked>>

\* now, in the loop: let sec = (*uc_sec).load
NowLoadSec ==
    /\ ~panicked
    /\ now_frame.pc = "sec"
    /\ now_frame' = [now_frame EXCEPT !.pc = "nsec", !.sec = SYSCLOCK.sec]
    /\ UNCHANGED <<SYSCLOCK, SCHEDULER, tick_frame, now_hist, panicked>>

\* now: the test that ends the loop
NowAgrees(prev_sec, prev_nsec, sec, nsec) == prev_sec = sec /\ prev_nsec <= nsec

\* now, in the loop: let nsec = (*uc_nsec).load, then the test: return
\* Instant::create(TimeSpec { sec, nsec }), or go round with prev = (sec, nsec)
NowLoadNsec ==
    /\ ~panicked
    /\ now_frame.pc = "nsec"
    /\ \E nsec \in {SYSCLOCK.nsec} :
         IF NowAgrees(now_frame.prev_sec, now_frame.prev_nsec, now_frame.sec, nsec)
         THEN /\ now_frame' = [now_frame EXCEPT !.pc = "idle"]
              /\ now_hist' = [now_hist EXCEPT
                                  !.returned = Append(@, <<now_frame.sec, nsec>>)]
         ELSE /\ now_frame' = [now_frame EXCEPT !.pc = "sec",
                                               !.prev_sec = now_frame.sec,
                                               !.prev_nsec = nsec]
              /\ UNCHANGED now_hist
    /\ UNCHANGED <<SYSCLOCK, SCHEDULER, tick_frame, panicked>>

ClockFrozen == UNCHANGED <<att_vars, vfs_vars, smp_vars, pic_vars>>

ClockNext ==
    \/ TickLock /\ ClockFrozen
    \/ TickLoadSec /\ ClockFrozen
    \/ TickLoadNsec /\ ClockFrozen
    \/ TickStoreSec /\ ClockFrozen
    \/ TickStoreNsec /\ ClockFrozen
    \/ TickUnlock /\ ClockFrozen
    \/ TickScheduler /\ ClockFrozen
    \/ SchedulerLock /\ ClockFrozen
    \/ NowLoadPrevSec /\ ClockFrozen
    \/ NowLoadPrevNsec /\ ClockFrozen
    \/ NowLoadSec /\ ClockFrozen
    \/ NowLoadNsec /\ ClockFrozen

ClockSpec == Init /\ [][ClockNext]_vars

\* C26: a call of now that runs while another core is in tick returns a pair
\* (sec, nsec) that the clock held at some instant of the call, never the
\* seconds of one update with the nanoseconds of another. (held is every
\* pair that sec and nsec formed together from the first load of the call to
\* its return, the pairs between the two stores of a tick included.)
C26_NoTornRead ==
    now_frame.pc = "idle" /\ now_hist.returned /= <<>>
        => now_hist.returned[Len(now_hist.returned)] \in now_hist.held

\* C27: the values that successive calls of now return never decrease,
\* whatever tick does in between.
C27_Monotonic ==
    \A i \in 1..(Len(now_hist.returned) - 1) :
        LET a == now_hist.returned[i]
            b == now_hist.returned[i + 1]
        IN  a[1] < b[1] \/ (a[1] = b[1] /\ a[2] <= b[2])


(***************************************************************************)
(* SMP: start_all and start_one on the boot processor, the application     *)
(* processors taking their stacks                                          *)
(***************************************************************************)
\* Polls of start_one for one core: stands for the 50_000 of the loop
PollLimit == 3

\* stack.top of the stack that memory::configure allocates for a core: a
\* fresh address above 0xa000
StackTop(cpu) == 40960 + 4096 * cpu

\* start_all: the loop over the cpus; after the last, the wait for the cores
StartAllLoop ==
    /\ ~panicked
    /\ bsp.pc = "start_all"
    /\ bsp' = [bsp EXCEPT !.pc = IF bsp.cpu <= NumAps THEN "assert" ELSE "wait"]
    /\ UNCHANGED <<AP_FREE_STACK, AP_READY_COUNT, aps, panicked>>

\* start_one: assert!(AP_FREE_STACK.load() == 0)
StartOneAssert ==
    /\ ~panicked
    /\ bsp.pc = "assert"
    /\ IF AP_FREE_STACK = 0
       THEN bsp' = [bsp EXCEPT !.pc = "store"] /\ UNCHANGED panicked
       ELSE bsp' = [bsp EXCEPT !.pc = "failed"] /\ panicked' = TRUE
    /\ UNCHANGED <<AP_FREE_STACK, AP_READY_COUNT, aps>>

\* start_one: alloc_stack and AP_FREE_STACK.store(stack.top)
StartOneStore ==
    /\ ~panicked
    /\ bsp.pc = "store"
    /\ AP_FREE_STACK' = StackTop(bsp.cpu)
    /\ bsp' = [bsp EXCEPT !.pc = "wakeup"]
    /\ UNCHANGED <<AP_READY_COUNT, aps, panicked>>

\* start_one: ioapic::apic_wakeup_processor(acpi_id)
StartOneWakeup ==
    /\ ~panicked
    /\ bsp.pc = "wakeup"
    /\ aps' = [aps EXCEPT ![bsp.cpu].state = "woken"]
    /\ bsp' = [bsp EXCEPT !.pc = "poll", !.polls = 0]
    /\ UNCHANGED <<AP_FREE_STACK, AP_READY_COUNT, panicked>>

\* a poll that takes every value of the slot for a cleared one
SlotClearAlways(value) == TRUE

\* start_one: AP_FREE_STACK.load() == 0 in the loop
SlotClear(value) == value = 0

\* a loop that never runs out
TimedOutNever(polls) == FALSE

\* start_one: the loop has made all its rounds
TimedOut(polls) == polls >= PollLimit

\* start_one: one round of the loop, sleep_ns and the load; after the last
\* round without a cleared slot, the panic
StartOnePoll ==
    /\ ~panicked
    /\ bsp.pc = "poll"
    /\ IF SlotClear(AP_FREE_STACK)
       THEN /\ bsp' = [bsp EXCEPT !.pc = "start_all", !.cpu = @ + 1, !.count = @ + 1]
            /\ UNCHANGED panicked
       ELSE IF TimedOut(bsp.polls + 1)
       THEN /\ bsp' = [bsp EXCEPT !.pc = "timeout", !.polls = @ + 1]
            /\ panicked' = TRUE
       ELSE /\ bsp' = [bsp EXCEPT !.polls = @ + 1]
            /\ UNCHANGED panicked
    /\ UNCHANGED <<AP_FREE_STACK, AP_READY_COUNT, aps>>

\* start_all: while AP_READY_COUNT.load() < count
StartAllWait ==
    /\ ~panicked
    /\ bsp.pc = "wait"
    /\ AP_READY_COUNT >= bsp.count
    /\ bsp' = [bsp EXCEPT !.pc = "done"]
    /\ UNCHANGED <<AP_FREE_STACK, AP_READY_COUNT, aps, panicked>>

\* ap_take_stack on a core that was woken: swap(0) and the sanity checks
ApTakeStack(cpu) ==
    /\ aps[cpu].state = "woken"
    /\ AP_FREE_STACK' = 0
    /\ IF AP_FREE_STACK /= 0 /\ AP_FREE_STACK > 40960
       THEN /\ aps' = [aps EXCEPT ![cpu] = [state |-> "running", stack |-> AP_FREE_STACK]]
            /\ UNCHANGED panicked
       ELSE /\ aps' = [aps EXCEPT ![cpu].state = "failed"]
            /\ panicked' = TRUE
    /\ UNCHANGED <<AP_READY_COUNT, bsp>>

\* ap_mark_ready on a core that runs on its stack
ApMarkReady(cpu) ==
    /\ aps[cpu].state = "running"
    /\ AP_READY_COUNT' = AP_READY_COUNT + 1
    /\ aps' = [aps EXCEPT ![cpu].state = "ready"]
    /\ UNCHANGED <<AP_FREE_STACK, bsp, panicked>>

SmpFrozen == UNCHANGED <<att_vars, vfs_vars, clock_vars, pic_vars>>

SmpNext ==
    \/ StartAllLoop /\ SmpFrozen
    \/ StartOneAssert /\ SmpFrozen
    \/ StartOneStore /\ SmpFrozen
    \/ StartOneWakeup /\ SmpFrozen
    \/ StartOnePoll /\ SmpFrozen
    \/ StartAllWait /\ SmpFrozen
    \/ \E cpu \in 1..NumAps : ApTakeStack(cpu) /\ SmpFrozen
    \/ \E cpu \in 1..NumAps : ApMarkReady(cpu) /\ SmpFrozen

SmpSpec == Init /\ [][SmpNext]_vars

Woken == {cpu \in 1..NumAps : aps[cpu].state = "woken"}
Taken == {cpu \in 1..NumAps : aps[cpu].state \in {"running", "ready"}}

\* C28: the application processors are brought up one at a time. The slot
\* holds nothing or the one stack parked for the core that start_one is
\* starting, and that core has not taken it yet; no core is signalled while
\* an earlier one has still to clear the slot; every core that took a stack
\* took the one parked for it, so no stack is taken twice, and no sanity
\* check of start_one or ap_take_stack fails.
C28_OneAtATime ==
    /\ Cardinality(Woken) <= 1
    /\ AP_FREE_STACK /= 0 =>
           /\ bsp.pc \in {"wakeup", "poll", "timeout"}
           /\ AP_FREE_STACK = StackTop(bsp.cpu)
           /\ bsp.cpu \notin Taken
    /\ \A cpu \in Woken : cpu = bsp.cpu /\ AP_FREE_STACK = StackTop(cpu)
    /\ \A cpu \in Taken : aps[cpu].stack = StackTop(cpu)
    /\ \A cpu \in 1..NumAps :
           /\ aps[cpu].state /= "failed"
           /\ aps[cpu].state /= "off" => \A before \in 1..(cpu - 1) : before \in Taken
    /\ bsp.pc /= "failed"

\* C28 happens: every core was started and took its stack, start_all is over
C28_Witness ==
    /\ bsp.pc = "done"
    /\ \A cpu \in 1..NumAps : aps[cpu].state = "ready" /\ aps[cpu].stack = StackTop(cpu)
    /\ AP_FREE_STACK = 0

LargeBufLen == 64

\* The calls on the attachment when the manager reads with a large buffer only
LiveNext ==
    \/ \E fc \in Clients, len \in ClientBufLens : ClientRead(fc, len)
    \/ ManagerRead(LargeBufLen)
    \/ \E buf \in ManagerWriteBufs : ManagerWrite(buf)
    \/ \E fc \in Clients : ClientWrite(fc)
    \/ \E fc \in Clients : ClientClose(fc)
    \/ ManagerClose
    \/ \E fc \in Clients, len \in ClientBufLens : ReadDestroyed(fc, len)

\* The manager's loop: as long as the attachment is there, the manager comes
\* back to read
LiveSpec == Init /\ [][LiveNext]_vars /\ WF_vars(ManagerRead(LargeBufLen))

IsPending(ev) == \E i \in DOMAIN reads_pending : reads_pending[i].ev = ev

\* The read behind an event has reached the manager, or the wait for it is
\* over: its client closed first, the manager closed, or the kernel stopped
\* in a call other than a read of the manager
Settled(ev) ==
    \/ last_delivered = ev
    \/ ev \in dropped
    \/ destroyed
    \/ panicked /\ ret.op /= "manager_read"

\* A manager read does not answer RepeatAfter while a queue holds an entry
NoRepeatWhilePending ==
    [][ret'.op = "manager_read" /\ ret'.kind = "RepeatAfter" /\ ret' /= ret
           => reads_pending = <<>> /\ closed_pending = <<>>]_vars

LeafParent(ns, path) ==
    LET IsLeaf(parent) == parent.kind = "Success" /\ ns[parent.val].leafness = "Leaf"
    IN  IsLeaf(ResolveAnswer(ns, Front(path)))

\* C31: a creation below a Leaf node is answered with the error
\* fs_node_is_leaf and creates nothing: an attach whose parent is a Leaf
\* returns that error, with the kernel running and the node table, the
\* node counter and the descriptor tables as they were.
C31_LeafParentRefused ==
    [][\A pid \in Pids, path \in AttachPaths :
           (LeafParent(nodes, path) /\ Attach(pid, path, TRUE)) =>
               /\ vret'.kind = "fs_node_is_leaf"
               /\ ~panicked'
               /\ nodes' = nodes
               /\ next_node_id' = next_node_id
               /\ descriptors' = descriptors]_vars

\* C32: the close that ends a temporary open of the kernel answers Normal.
\* For every node of the table, in every state the calls reach, a temp_open
\* of the node, with a silent body or with the read of read_file, passes its
\* assertion and leaves the table with the same nodes and the node with the
\* reference count it had.
C32_TempOpenKeeps ==
    \A n \in DOMAIN nodes :
        LET Kept(t) ==
                /\ t.kind /= "Panic"
                /\ DOMAIN t.nodes = DOMAIN nodes
                /\ t.nodes[n].refcount = nodes[n].refcount
        IN  Kept(TempOpen(nodes, n)) /\ Kept(ReadFile(nodes, n))

\* C32 happens: exec read the image from an attachment whose flag was
\* already available; the temporary open came back with RepeatAfter and the
\* attachment is still in the table with its manager's reference
C32_Witness ==
    /\ vret.op = "exec"
    /\ vret.kind = "RepeatAfter"
    /\ vret.taken > 0
    /\ vret.lost = 0
    /\ ~panicked
    /\ \E n \in DOMAIN nodes : nodes[n].data = "Attachment" /\ nodes[n].refcount >= 1

(***************************************************************************)
(* VirtualFS with a directory among the paths that are opened              *)
(***************************************************************************)
\* Paths handed to open where the links of the tree are followed: a
\* directory and the attachment point below it
TreeOpenPaths == {<<"srv">>, <<"srv", "echo">>}

TreeNext ==
    \/ \E pid \in Pids, path \in TreeOpenPaths : Open(pid, path) /\ Uncounted
    \/ \E pid \in Pids, fd \in Fds : Close(pid, fd) /\ Uncounted
    \/ \E pid \in Pids, path \in AttachPaths : Attach(pid, path, TRUE) /\ Uncounted
    \/ \E path \in ExecPaths : Exec(KernelPid, path) /\ Uncounted
    \/ \E pid \in Pids : OnProcessOver(pid) /\ Uncounted

TreeSpec == Init /\ [][TreeNext]_vars

\* The nodes of the table whose parent has left the table
Orphans(ns) ==
    {n \in DOMAIN ns : ns[n].parent /= NoNode /\ ns[n].parent \notin DOMAIN ns}

\* C33: every node of the table whose parent is in the table is in the
\* listing of that parent, and every entry of a listing names a node of the
\* table, so a node that was destroyed leaves no link in a parent that is
\* still there; and the removal of a node whose parent is already gone goes
\* through without a panic and leaves the other nodes as they are.
C33_TreeLinks ==
    /\ [](\A n \in DOMAIN nodes :
              /\ (nodes[n].parent /= NoNode /\ nodes[n].parent \in DOMAIN nodes) =>
                     \E i \in DOMAIN nodes[nodes[n].parent].listing :
                         nodes[nodes[n].parent].listing[i].id = n
              /\ \A i \in DOMAIN nodes[n].listing : nodes[n].listing[i].id \in DOMAIN nodes)
    /\ [][\A n \in Orphans(nodes) :
              n \notin DOMAIN nodes' =>
                  /\ ~panicked'
                  /\ \A other \in DOMAIN nodes' : nodes'[other].listing = nodes[other].listing]_vars

\* C33 happens: /srv was destroyed and the root no longer lists it, while
\* the attachment below it is still in the table with its parent gone
C33_Witness ==
    /\ ~panicked
    /\ \A i \in DOMAIN nodes[ROOT_ID].listing : nodes[ROOT_ID].listing[i].name /= "srv"
    /\ \E n \in Orphans(nodes) : nodes[n].data = "Attachment"

C35_TickSkipsScheduler ==
    [][(tick_frame.pc = "scheduler" /\ SCHEDULER.locked /\ TickScheduler) =>
           /\ ~panicked'
           /\ tick_frame'.pc = "idle"
           /\ SYSCLOCK' = SYSCLOCK
           /\ SCHEDULER' = SCHEDULER]_vars

\* The processes that are over: a pid that was handed out and has no
\* descriptor table any more
Dead(pid) == pid < next_pid /\ pid \notin DOMAIN descriptors

\* C36: a close for a descriptor of a process that is over is ignored: the
\* call answers Success, nothing panics, and the filesystem is as before.
C36_CloseOfDeadIgnored ==
    [][\A pid \in Pids, fd \in Fds :
           (Dead(pid) /\ Close(pid, fd)) =>
               /\ ~panicked'
               /\ vret'.op = "close"
               /\ vret'.kind = "Success"
               /\ nodes' = nodes
               /\ descriptors' = descriptors
               /\ holders' = holders
               /\ parked' = parked]_vars

\* C37: the manager is sent at most one Close request for a client: no
\* client waits twice in closed_pending, and when a manager read hands over
\* the Close of a client, no further Close of that client is left to be sent.
C37_OneClosePerClient ==
    /\ [](\A i, j \in DOMAIN closed_pending :
              i /= j => closed_pending[i] /= closed_pending[j])
    /\ [][(/\ ret'.op = "manager_read"
           /\ ret'.kind = "Success"
           /\ closed_pending /= <<>>
           /\ DecodeRequest(ret'.buf).tag = TagClose) =>
              \A i \in DOMAIN closed_pending' :
                  Sender(closed_pending'[i]) /= DecodeRequest(ret'.buf).sender]_vars

\* x is a value of a u32: below 2^32, told by its upper half
FitsU32(x) == x >= 0 /\ x \div 65536 < 65536

\* Nanoseconds from the instant a to the instant b, both <<sec, nsec>>
NanosBetween(a, b) == (b[1] - a[1]) * NANOS_PER_SEC + (b[2] - a[2])

\* C38: the nsec of the clock stays below one second; the sum nsec + inc
\* that tick computes is a value of a u32; and a tick moves the clock on by
\* inc nanoseconds exactly: from the values it loaded to the values it stores,
\* and from the time the scheduler was given at the last tick to the time it
\* is given at this one.
C38_TickAdvancesByInc ==
    /\ [](/\ SYSCLOCK.nsec < NANOS_PER_SEC
          /\ tick_frame.pc = "load_nsec" => FitsU32(SYSCLOCK.nsec + inc))
    /\ [][/\ TickLoadNsec =>
                NanosBetween(<<tick_frame.sec, SYSCLOCK.nsec>>,
                             <<tick_frame'.sec, tick_frame'.nsec>>) = inc
          /\ (TickScheduler /\ ~panicked') =>
                /\ SCHEDULER'.now = <<SYSCLOCK.sec, SYSCLOCK.nsec>>
                /\ NanosBetween(SCHEDULER.now, SCHEDULER'.now) = inc]_vars

\* C38 happens: the second tick is over and has carried into the seconds:
\* the clock and the scheduler are at 1 s and 200,000,000 ns
C38_Witness ==
    /\ ~panicked
    /\ tick_frame.pc = "idle"
    /\ tick_frame.ticks = 2
    /\ SYSCLOCK.sec = 1
    /\ SYSCLOCK.nsec = 2 * inc - NANOS_PER_SEC
    /\ SCHEDULER.now = <<SYSCLOCK.sec, SYSCLOCK.nsec>>

(***************************************************************************)
(* The handlers of IRQ 7 and IRQ 15 on the lock of PICS, one lock or       *)
(* register access at a time                                               *)
(***************************************************************************)
\* Interrupts on the lines 7 and 15 that are followed
MaxIrqs == 3
\* Turns of a spinning lock() that are followed
MaxSpins == 2

\* The lines that may be spurious: the last of each controller
SpuriousLines == {7, 15}

\* The controller raises line 7 or 15 and the core enters the handler: a
\* real interrupt is in service, a spurious one is not
IrqRaise(irq, real) ==
    /\ ~panicked
    /\ irq_frame.pc = "idle"
    /\ irq_frame.handled < MaxIrqs
    /\ PICS' = [PICS EXCEPT !.isr = IF real THEN @ \cup {irq} ELSE @]
    /\ irq_frame' = [irq_frame EXCEPT !.pc = "lock", !.irq = irq, !.spins = 0]
    /\ UNCHANGED panicked

\* Mutex::lock of spin: one turn of the loop; the lock is taken when no
\* one holds it, and the loop turns again when someone does, the caller
\* included
SpinLock(then) ==
    IF PICS.holder = "none"
    THEN /\ PICS' = [PICS EXCEPT !.holder = "handler"]
         /\ irq_frame' = [irq_frame EXCEPT !.pc = then, !.spins = 0]
    ELSE /\ irq_frame.spins < MaxSpins
         /\ irq_frame' = [irq_frame EXCEPT !.spins = @ + 1]
         /\ UNCHANGED PICS

\* exception_irq7, exception_irq15: let mut pics = pic::PICS.lock()
IrqLock ==
    /\ ~panicked
    /\ irq_frame.pc = "lock"
    /\ SpinLock("read_isr")
    /\ UNCHANGED panicked

\* let is_real = pics.read_isr() & (1 << line) != 0, and the branch taken
IrqReadIsr ==
    /\ ~panicked
    /\ irq_frame.pc = "read_isr"
    /\ LET is_real == irq_frame.irq \in PICS.isr
       IN  irq_frame' = [irq_frame EXCEPT
                             !.is_real = is_real,
                             !.pc = IF is_real THEN "notify_eoi"
                                    ELSE IF irq_frame.irq = 15 THEN "notify_eoi_primary"
                                    ELSE "drop"]
    /\ UNCHANGED <<PICS, panicked>>

\* pic::PICS.lock().notify_eoi(..) and pic::PICS.lock().notify_eoi_primary():
\* a second lock() while pics is alive; with the lock the line leaves the
\* in-service register and the temporary guard is dropped at once
IrqNotifyEoi ==
    /\ ~panicked
    /\ irq_frame.pc \in {"notify_eoi", "notify_eoi_primary"}
    /\ IF PICS.holder = "none"
       THEN /\ PICS' = [PICS EXCEPT !.isr = IF irq_frame.pc = "notify_eoi"
                                             THEN @ \ {irq_frame.irq} ELSE @]
            /\ irq_frame' = [irq_frame EXCEPT !.pc = "drop", !.spins = 0]
       ELSE /\ irq_frame.spins < MaxSpins
            /\ irq_frame' = [irq_frame EXCEPT !.spins = @ + 1]
            /\ UNCHANGED PICS
    /\ UNCHANGED panicked

\* The end of the handler: pics goes out of scope and the lock is released
IrqDrop ==
    /\ ~panicked
    /\ irq_frame.pc = "drop"
    /\ PICS' = [PICS EXCEPT !.holder = "none"]
    /\ irq_frame' = [irq_frame EXCEPT !.pc = "idle", !.handled = @ + 1]
    /\ UNCHANGED panicked

\* Another core takes the lock of PICS, or gives it back
PicsLock ==
    /\ ~panicked
    /\ PICS.holder /= "handler"
    /\ PICS' = [PICS EXCEPT !.holder = IF @ = "none" THEN "other" ELSE "none"]
    /\ UNCHANGED <<irq_frame, panicked>>

PicFrozen == UNCHANGED <<att_vars, vfs_vars, clock_vars, smp_vars>>

PicNext ==
    \/ \E irq \in SpuriousLines, real \in BOOLEAN : IrqRaise(irq, real) /\ PicFrozen
    \/ IrqLock /\ PicFrozen
    \/ IrqReadIsr /\ PicFrozen
    \/ IrqNotifyEoi /\ PicFrozen
    \/ IrqDrop /\ PicFrozen
    \/ PicsLock /\ PicFrozen

PicSpec == Init /\ [][PicNext]_vars

\* C39: the handlers of IRQ 7 and IRQ 15 never wait for a lock they hold
\* themselves, for a real and for a spurious interrupt alike, and when no
\* handler is running the lock of PICS is not held by one.
C39_IrqHandlersComplete ==
    /\ ~(/\ irq_frame.pc \in {"notify_eoi", "notify_eoi_primary"}
         /\ PICS.holder = "handler")
    /\ irq_frame.pc = "idle" => PICS.holder /= "handler"

====
